---------------------------- MODULE Spec2Model ----------------------------
(***************************************************************************)
(* A model of the SCID ingestion code: the record decoder of parser.py,    *)
(* the PostgreSQL loader of db_manager.py, the checkpoint store and the    *)
(* sequential orchestrator of data_sync.py, and the ClickHouse loader and  *)
(* pipelined orchestrator of clickhouse_manager.py / clickhouse_sync.py.   *)
(*                                                                         *)
(* Time is scaled: one model tick stands for 86400e6 / TicksPerDay          *)
(* microseconds.  An instant (a Python datetime) is an integer number of   *)
(* ticks since 1970-01-01T00:00:00Z, a date of the configuration is an     *)
(* integer number of days since 1970-01-01.                                *)
(***************************************************************************)
EXTENDS Integers, Sequences, FiniteSets, TLC

(***************************************************************************)
(* Bounds of the model.                                                    *)
(***************************************************************************)
\* model ticks per calendar day (the scale of raw_time)
TicksPerDay == 1
\* raw_time values 0..MaxTime convert to an instant; MaxTime + 1 stands for
\* the raw_time values beyond datetime.max
MaxTime == 2
\* longest file body, in records
MaxRecs == 3
\* the batch_size argument of sync_symbol (10000 / 100000 by default)
BatchSize == 2
\* destination faults injected in one behaviour
MaxFaults == 1
\* insert_records called on its own: largest raw_time of a row, longest batch
DbMaxTime == 1
MaxBatch == 2
\* read_records called on its own: longest file body, in records
DecMaxRecs == 2
\* the resampler: model ticks per minute (the scale of its raw_time), and
\* the longest file body, in records
TicksPerMinute == 3
ResMaxRecs == 3

(***************************************************************************)
(* parser.py                                                               *)
(***************************************************************************)
HEADER_SIZE == 56
\* 1899-12-30 as days since 1970-01-01
SC_EPOCH_DAYS == -25569
SC_EPOCH == SC_EPOCH_DAYS * TicksPerDay

\* Optional values: None is the empty tuple, Some(x) the one-element tuple
None == <<>>
Some(x) == <<x>>

\* the largest raw_time for which SC_EPOCH + timedelta(microseconds = t) is
\* a datetime (year <= 9999); larger values raise OverflowError
DatetimeMaxRaw == MaxTime
RawTimes == 0..(MaxTime + 1)

\* SCIDParser._convert_sc_timestamp; the caller checks ConvertRaises first
ConvertRaises(sc_time_val) == sc_time_val > DatetimeMaxRaw
ConvertScTimestamp(sc_time_val) == SC_EPOCH + sc_time_val

\* datetime.strptime(s, "%Y-%m-%d").replace(tzinfo = utc), None kept as None
\* (data_sync.py 170-181, clickhouse_sync.py 99-100)
ParseDate(d) == IF d = None THEN None ELSE Some(d[1] * TicksPerDay)

\* Path(file_path).name and SCIDParser._extract_contract_from_path
PathName(p) == p.name
ExtractContract(p) == p.name

\* one decoded record; `fields` stands for open/high/low/close and the four
\* volume fields taken together
SCIDRecord(raw, fields, contract) ==
    [datetime |-> ConvertScTimestamp(raw), raw_time |-> raw,
     fields |-> fields, contract |-> contract]

\* SCIDRecord.to_db_tuple: the row handed to the loader.  ok = FALSE marks a
\* row the destination rejects (type mismatch); the decoder never makes one.
ToDbTuple(rec) ==
    [datetime |-> rec.datetime, raw_time |-> rec.raw_time,
     fields |-> rec.fields, contract |-> rec.contract, ok |-> TRUE]

\* the parameters read_records accepts, and the keyword arguments of its two
\* callers; a keyword that is not a parameter raises TypeError at the call
ReadRecordsParams == {"start_date", "end_date", "offset"}
DataSyncKwargs == {"start_date", "end_date"}
ParserThreadKwargs == {"start_date", "end_date", "buffer_size"}
CallRaises(kwargs) == ~(kwargs \subseteq ReadRecordsParams)

\* parse_header raises ValueError when fewer than HEADER_SIZE bytes are read
ParseHeaderRaises(file) == file.hdrLen < HEADER_SIZE

\* the date filter of read_records: TRUE when the record is skipped
Filtered_EndInclusive(dt_val, start_date, end_date) ==
    \/ (start_date # None /\ dt_val < start_date[1])
    \/ (end_date # None /\ dt_val > end_date[1])
Filtered(dt_val, start_date, end_date) ==
    \/ (start_date # None /\ dt_val < start_date[1])
    \/ (end_date # None /\ dt_val >= end_date[1])

\* One resumption of the read_records generator with the file positioned at
\* record `pos` (1-based): it scans forward to the next record that passes
\* the filter.  The timestamp is converted before the filter is applied, so
\* an unconvertible raw_time raises even when the record would be skipped.
RECURSIVE NextRecord(_, _, _, _, _)
NextRecord(file, contract, start_date, end_date, pos) ==
    IF pos > Len(file.recs)
    THEN [kind |-> "eof", pos |-> pos]
    ELSE LET raw == file.recs[pos].raw_time IN
         IF ConvertRaises(raw)
         THEN [kind |-> "raise", pos |-> pos]
         ELSE IF Filtered(ConvertScTimestamp(raw), start_date, end_date)
              THEN NextRecord(file, contract, start_date, end_date, pos + 1)
              ELSE [kind |-> "yield", pos |-> pos + 1,
                    rec |-> SCIDRecord(raw, file.recs[pos].fields, contract)]

\* The read_records generator as its caller sees it.  pos = 0: the call and
\* the first resumption, which binds the arguments, opens the file and parses
\* the header; pos > 0: a later resumption.
GeneratorStep(file, contract, kwargs, start_date, end_date, pos) ==
    IF pos = 0 /\ (CallRaises(kwargs) \/ ParseHeaderRaises(file))
    THEN [kind |-> "raise", pos |-> 0]
    ELSE NextRecord(file, contract, start_date, end_date,
                    IF pos = 0 THEN 1 ELSE pos)

(***************************************************************************)
(* parser.py at the level of bytes.  A file is a sequence of bytes         *)
(* (0..255); struct.unpack with a '<' format reads little-endian fields.   *)
(* A float is kept as the sign, exponent and fraction of its IEEE 754      *)
(* single-precision encoding, which is what unpacking an 'f' field         *)
(* preserves exactly.                                                      *)
(***************************************************************************)
RECORD_SIZE == 40

\* struct '<I', '<H', '<Q': the little-endian unsigned integer of a byte string
RECURSIVE UnpackUInt(_)
UnpackUInt(bs) ==
    IF bs = <<>> THEN 0 ELSE Head(bs) + 256 * UnpackUInt(Tail(bs))

\* struct '<f'
UnpackFloat(bs) ==
    [sign |-> bs[4] \div 128,
     exp |-> (bs[4] % 128) * 2 + bs[3] \div 128,
     frac |-> (bs[3] % 128) * 65536 + bs[2] * 256 + bs[1]]

\* the end-of-file test of read_records (line 189): the read returned fewer
\* bytes than a record has
ShortRead_OnlyEmpty(buffer) == buffer = <<>>
ShortRead(buffer) == Len(buffer) < RECORD_SIZE

\* struct.unpack raises struct.error unless the buffer has the size of the format
UnpackRaises(buffer) == Len(buffer) # RECORD_SIZE

\* struct.unpack(RECORD_FORMAT, buffer) with RECORD_FORMAT = '<Q4f4I'
UnpackRecord(buffer) ==
    [raw_time |-> UnpackUInt(SubSeq(buffer, 1, 8)),
     open |-> UnpackFloat(SubSeq(buffer, 9, 12)),
     high |-> UnpackFloat(SubSeq(buffer, 13, 16)),
     low |-> UnpackFloat(SubSeq(buffer, 17, 20)),
     close |-> UnpackFloat(SubSeq(buffer, 21, 24)),
     num_trades |-> UnpackUInt(SubSeq(buffer, 25, 28)),
     volume |-> UnpackUInt(SubSeq(buffer, 29, 32)),
     bid_volume |-> UnpackUInt(SubSeq(buffer, 33, 36)),
     ask_volume |-> UnpackUInt(SubSeq(buffer, 37, 40))]

\* f.read(n) with the file positioned after `at` bytes
FileRead(bytes, at, n) ==
    SubSeq(bytes, at + 1, IF at + n <= Len(bytes) THEN at + n ELSE Len(bytes))

\* bytes.decode('utf-8') raises UnicodeDecodeError on a malformed sequence
Cont(b) == b >= 128 /\ b <= 191
RECURSIVE Utf8Valid(_)
Utf8Valid(bs) ==
    IF bs = <<>> THEN TRUE
    ELSE LET b == bs[1]
             n == Len(bs)
         IN CASE b < 128 -> Utf8Valid(Tail(bs))
              [] b >= 194 /\ b <= 223 ->
                    n >= 2 /\ Cont(bs[2]) /\ Utf8Valid(SubSeq(bs, 3, n))
              [] b >= 224 /\ b <= 239 ->
                    /\ n >= 3 /\ Cont(bs[2]) /\ Cont(bs[3])
                    /\ (b = 224 => bs[2] >= 160)
                    /\ (b = 237 => bs[2] <= 159)
                    /\ Utf8Valid(SubSeq(bs, 4, n))
              [] b >= 240 /\ b <= 244 ->
                    /\ n >= 4 /\ Cont(bs[2]) /\ Cont(bs[3]) /\ Cont(bs[4])
                    /\ (b = 240 => bs[2] >= 144)
                    /\ (b = 244 => bs[2] <= 143)
                    /\ Utf8Valid(SubSeq(bs, 5, n))
              [] OTHER -> FALSE

\* parse_header(f) on the bytes read: ValueError on a short read,
\* UnicodeDecodeError when the file type id is not UTF-8
ParseHeaderBytesRaises(data) ==
    \/ Len(data) < HEADER_SIZE
    \/ ~Utf8Valid(SubSeq(data, 1, 4))

\* the building of synthetic files: struct.pack, the inverse layout
RECURSIVE PackUInt(_, _)
PackUInt(v, n) ==
    IF n = 0 THEN <<>> ELSE <<v % 256>> \o PackUInt(v \div 256, n - 1)
PackFloat(f) ==
    << f.frac % 256,
       (f.frac \div 256) % 256,
       (f.exp % 2) * 128 + f.frac \div 65536,
       f.sign * 128 + f.exp \div 2 >>
PackRecord(v) ==
    PackUInt(v.raw_time, 8) \o PackFloat(v.open) \o PackFloat(v.high)
    \o PackFloat(v.low) \o PackFloat(v.close) \o PackUInt(v.num_trades, 4)
    \o PackUInt(v.volume, 4) \o PackUInt(v.bid_volume, 4)
    \o PackUInt(v.ask_volume, 4)
RECURSIVE PackRecords(_)
PackRecords(vs) ==
    IF vs = <<>> THEN <<>> ELSE PackRecord(Head(vs)) \o PackRecords(Tail(vs))

(***************************************************************************)
(* db_manager.py: the destination table is a sequence of rows in insertion *)
(* order; its uniqueness key is (datetime, raw_time).                      *)
(***************************************************************************)
KeyOf(row) == <<row.datetime, row.raw_time>>
Keys(T) == {KeyOf(T[i]) : i \in DOMAIN T}
Rows(T) == {T[i] : i \in DOMAIN T}

\* INSERT ... ON CONFLICT (datetime, raw_time) DO NOTHING of one row
InsertRow_NoConflictClause(T, row) == Append(T, row)
InsertRow(T, row) == IF KeyOf(row) \in Keys(T) THEN T ELSE Append(T, row)

\* INSERT ... SELECT ... FROM staging ON CONFLICT DO NOTHING (one statement)
RECURSIVE InsertSelect(_, _)
InsertSelect(T, records) ==
    IF records = <<>> THEN T
    ELSE InsertSelect(InsertRow(T, Head(records)), Tail(records))

\* _fallback_insert without the try around each execute: the first row that
\* raises ends the loop
RECURSIVE FallbackInsert_StopAtBadRow(_, _, _)
FallbackInsert_StopAtBadRow(T, records, down) ==
    IF records = <<>> THEN [table |-> T, ret |-> 0]
    ELSE LET row == Head(records)
         IN IF down \/ ~row.ok THEN [table |-> T, ret |-> 0]
            ELSE LET rest == FallbackInsert_StopAtBadRow(InsertRow(T, row),
                                                         Tail(records), down)
                 IN [table |-> rest.table, ret |-> rest.ret + 1]

\* DBManager._fallback_insert: row by row; a row whose execute raises
\* (rejected row, or destination unreachable) is printed and skipped;
\* `inserted` counts the executes that did not raise.
RECURSIVE FallbackInsert(_, _, _)
FallbackInsert(T, records, down) ==
    IF records = <<>> THEN [table |-> T, ret |-> 0]
    ELSE LET row == Head(records)
             bad == down \/ ~row.ok
             T1 == IF bad THEN T ELSE InsertRow(T, row)
             rest == FallbackInsert(T1, Tail(records), down)
         IN [table |-> rest.table, ret |-> rest.ret + (IF bad THEN 0 ELSE 1)]

\* the faults of the destination during one insert_records call:
\*   "none"  every statement succeeds
\*   "bulk"  a statement of the bulk path raises, the row-by-row path works
\*   "down"  every statement raises (destination unreachable)
Faults == {"none", "bulk", "down"}

\* DBManager.insert_records: result table, returned count, and whether an
\* exception leaves the call
InsertRecords(T, records, fault) ==
    IF records = <<>> THEN [table |-> T, ret |-> 0, raised |-> FALSE]
    ELSE IF fault = "none" /\ \A i \in DOMAIN records : records[i].ok
         THEN LET T1 == InsertSelect(T, records)
              IN [table |-> T1, ret |-> Len(T1) - Len(T), raised |-> FALSE]
         ELSE LET fb == FallbackInsert(T, records, fault = "down")
              IN [table |-> fb.table, ret |-> fb.ret, raised |-> FALSE]

(***************************************************************************)
(* data_sync.py: Checkpoint.  _data maps a symbol to the entries of its    *)
(* files, keyed by the file's base name; an entry maps field names to      *)
(* values.  A dict is a function whose domain is its key set.              *)
(***************************************************************************)
EmptyDict == [k \in {} |-> TRUE]
DictGet(d, k, default) == IF k \in DOMAIN d THEN d[k] ELSE default
DictSet(d, k, v) == [x \in DOMAIN d \cup {k} |-> IF x = k THEN v ELSE d[x]]

\* is_completed answering for any file that has an entry
IsCompleted_AnyEntry(data, symbol, file_path) ==
    PathName(file_path) \in DOMAIN DictGet(data, symbol, EmptyDict)

\* Checkpoint.is_completed
IsCompleted(data, symbol, file_path) ==
    DictGet(DictGet(DictGet(data, symbol, EmptyDict),
                    PathName(file_path), EmptyDict),
            "completed", FALSE)

\* Checkpoint.set_completed
SetCompleted(data, symbol, file_path, completed) ==
    LET files == DictGet(data, symbol, EmptyDict)
        entry == DictGet(files, PathName(file_path), EmptyDict)
    IN DictSet(data, symbol,
               DictSet(files, PathName(file_path),
                       DictSet(entry, "completed", completed)))

\* Checkpoint.get_last_position
GetLastPosition(data, symbol, file_path) ==
    DictGet(DictGet(DictGet(data, symbol, EmptyDict),
                    PathName(file_path), EmptyDict),
            "last_position", 0)

\* Checkpoint.set_last_position; `now` is datetime.datetime.now().isoformat()
SetLastPosition(data, symbol, file_path, position, now) ==
    LET files == DictGet(data, symbol, EmptyDict)
        entry == DictGet(files, PathName(file_path), EmptyDict)
    IN DictSet(data, symbol,
               DictSet(files, PathName(file_path),
                       DictSet(DictSet(entry, "last_position", position),
                               "last_updated", now)))

\* json.dump(self._data, f): the document as a sequence of tokens.  A token
\* is a punctuation mark, true, false, a number ("n") or a string ("s");
\* the entries of a symbol are written under its "files" key.
Tok(t, v) == [t |-> t, v |-> v]
P(c) == Tok(c, "")
FieldOrder == <<"completed", "last_position", "last_updated">>
DumpField(k, v) ==
    << Tok("s", k), P(":"),
       IF k = "completed" THEN P(IF v THEN "true" ELSE "false")
       ELSE IF k = "last_position" THEN Tok("n", v) ELSE Tok("s", v) >>
RECURSIVE DumpFields(_, _)
DumpFields(e, ks) ==
    IF ks = <<>> THEN <<>>
    ELSE DumpField(Head(ks), e[Head(ks)])
         \o (IF Len(ks) > 1 THEN <<P(",")>> ELSE <<>>) \o DumpFields(e, Tail(ks))
\* an entry written without its position fields
DumpEntry_CompletedOnly(e) ==
    <<P("{")>> \o DumpFields(e, SelectSeq(FieldOrder, LAMBDA k : k \in DOMAIN e /\ k = "completed"))
    \o <<P("}")>>
DumpEntry(e) ==
    <<P("{")>> \o DumpFields(e, SelectSeq(FieldOrder, LAMBDA k : k \in DOMAIN e))
    \o <<P("}")>>
RECURSIVE DumpFiles(_, _)
DumpFiles(fs, names) ==
    IF names = {} THEN <<>>
    ELSE LET n == CHOOSE x \in names : TRUE
         IN <<Tok("s", n), P(":")>> \o DumpEntry(fs[n])
            \o (IF names # {n} THEN <<P(",")>> ELSE <<>>)
            \o DumpFiles(fs, names \ {n})
RECURSIVE DumpSymbols(_, _)
DumpSymbols(data, syms) ==
    IF syms = {} THEN <<>>
    ELSE LET sym == CHOOSE x \in syms : TRUE
         IN <<Tok("s", sym), P(":"), P("{"), Tok("s", "files"), P(":"), P("{")>>
            \o DumpFiles(data[sym], DOMAIN data[sym]) \o <<P("}"), P("}")>>
            \o (IF syms # {sym} THEN <<P(",")>> ELSE <<>>)
            \o DumpSymbols(data, syms \ {sym})
JsonDump(data) == <<P("{")>> \o DumpSymbols(data, DOMAIN data) \o <<P("}")>>

\* json.load(f): a value and the tokens after it; an object becomes a dict,
\* a later member replacing an earlier one of the same key
RECURSIVE ParseValue(_)
RECURSIVE ParseMembers(_, _)
ParseValue(ts) ==
    LET h == Head(ts)
    IN IF h.t = "{"
       THEN IF ts[2].t = "}"
            THEN [val |-> EmptyDict, rest |-> SubSeq(ts, 3, Len(ts))]
            ELSE ParseMembers(Tail(ts), EmptyDict)
       ELSE IF h.t \in {"true", "false"}
       THEN [val |-> h.t = "true", rest |-> Tail(ts)]
       ELSE [val |-> h.v, rest |-> Tail(ts)]
ParseMembers(ts, acc) ==
    LET v == ParseValue(SubSeq(ts, 3, Len(ts)))
        acc2 == DictSet(acc, ts[1].v, v.val)
    IN IF Head(v.rest).t = ","
       THEN ParseMembers(Tail(v.rest), acc2)
       ELSE [val |-> acc2, rest |-> Tail(v.rest)]
\* the entries of each symbol, as the readers reach them through
\* .get("files", {})
JsonLoad(text) ==
    LET doc == ParseValue(text).val
    IN [sym \in DOMAIN doc |-> DictGet(doc[sym], "files", EmptyDict)]

\* Checkpoint.load: a missing file gives an empty store
Load(disk) == IF disk.exists THEN JsonLoad(disk.doc) ELSE EmptyDict
\* Checkpoint.save
Save(data) == [exists |-> TRUE, doc |-> JsonDump(data)]

(***************************************************************************)
(* clickhouse_manager.py and the checkpoint class of clickhouse_sync.py.   *)
(***************************************************************************)
\* ClickHouseManager.insert_records: one INSERT of the whole block, no
\* conflict handling; a fault or a rejected row raises out of the call
RECURSIVE AnyRejected(_)
AnyRejected(records) ==
    records # <<>> /\ (~Head(records).ok \/ AnyRejected(Tail(records)))
CHInsertRecords(T, records, fault) ==
    IF records = <<>> THEN [table |-> T, ret |-> 0, raised |-> FALSE]
    ELSE IF fault # "none" \/ AnyRejected(records)
         THEN [table |-> T, ret |-> 0, raised |-> TRUE]
         ELSE [table |-> T \o records, ret |-> Len(records), raised |-> FALSE]

\* ClickHouseCheckpoint.is_completed
CHIsCompleted(data, symbol, file_path) ==
    IF symbol \notin DOMAIN data THEN FALSE
    ELSE IF PathName(file_path) \notin DOMAIN data[symbol] THEN FALSE
    ELSE DictGet(data[symbol][PathName(file_path)], "completed", FALSE)

\* the test of sync_symbol that skips a contract file (line 219)
SkipContract_Never(data, symbol, file_path) == FALSE
SkipContract(data, symbol, file_path) == CHIsCompleted(data, symbol, file_path)

\* Queue(maxsize = 3) of process_contract
QUEUE_MAXSIZE == 3

\* the test of sync_symbol on the result of process_contract (line 236)
ShouldMarkCompleted_Always(stats) == TRUE
ShouldMarkCompleted(stats) == stats.processed > 0 /\ stats.inserted > 0

(***************************************************************************)
(* The inputs: the SCID files on disk and the symbol configuration.        *)
(***************************************************************************)
Symbols == {"ES", "ZZ"}
\* the only symbol config.json configures
ConfiguredSymbol == "ES"
\* a configuration that answers for every symbol
HasSymbolConfig_Always(sym) == TRUE
\* Config.get_symbol_config(symbol) is not None
HasSymbolConfig(sym) == sym = ConfiguredSymbol

Path1 == [dir |-> "data", name |-> "ESZ24_FUT_CME.scid"]
Path2 == [dir |-> "data", name |-> "ESH25_FUT_CME.scid"]
Paths == {Path1, Path2}

\* file bodies in chronological order, the way the feed appends them
NondecTimes ==
    {ts \in UNION {[1..n -> RawTimes] : n \in 0..MaxRecs} :
        \A i \in DOMAIN ts : \A j \in DOMAIN ts :
            i < j => (ts[i] <= ts[j] /\ ~ConvertRaises(ts[i]))}
Body(ts) == [i \in DOMAIN ts |-> [raw_time |-> ts[i], fields |-> i]]
AbsentFile == [exists |-> FALSE, hdrLen |-> 0, recs |-> <<>>]
ShortFile == [exists |-> TRUE, hdrLen |-> HEADER_SIZE - 1, recs |-> <<>>]
FileStates ==
    {AbsentFile, ShortFile} \cup
    {[exists |-> TRUE, hdrLen |-> HEADER_SIZE, recs |-> Body(ts)] :
        ts \in NondecTimes}

\* config.py ContractConfig; dates are days, None when unbounded
ContractConfig(file, start_date, end_date) ==
    [file |-> file, start_date |-> start_date, end_date |-> end_date]
Day(k) == Some(SC_EPOCH_DAYS + k)
ContractLists ==
    { <<ContractConfig(Path1, Day(1), Day(2)), ContractConfig(Path2, Day(2), None)>>,
      <<ContractConfig(Path1, None, Day(1)), ContractConfig(Path2, Day(1), Day(2))>>,
      <<ContractConfig(Path1, None, None), ContractConfig(Path2, None, None)>> }

(***************************************************************************)
(* State.                                                                  *)
(***************************************************************************)
VARIABLES
    files,            \* path -> file on disk (never written by the program)
    contracts,        \* sym_config.contracts of the configured symbol
    table,            \* the PostgreSQL destination table
    ckptDisk,         \* checkpoint.json
    pc,               \* "idle" | "loop" | "read" | "dead"
    symbol,           \* the argument of the current sync_symbol call
    ckptMem,          \* Checkpoint._data of the running process
    idx,              \* position of the for loop over contracts (1-based)
    pos,              \* next record of the open file; 0: generator not started
    batch,            \* the local list `batch`
    total_processed,
    total_inserted,
    result,           \* how the last sync_symbol call ended
    nFaults,          \* destination faults so far
    emitted,          \* this run: contract index -> records yielded
    loads,            \* this run: the insert_records calls, in order
    finished,         \* this run: contracts read to EOF and loaded
    startDone,        \* this run: contracts is_completed when it started
    interrupted,      \* "no" | "before" | "after": a run was killed before /
                      \* after it had committed rows
    rowsLost          \* a load removed or changed a row of the table

\* insert_records called on its own (specification SpecDB)
VARIABLES
    dbTable,          \* the destination table
    dbBatch,          \* the batch handed to insert_records
    dbLast,           \* the last call: table before, fault, result
    dbPhase           \* "fresh" | "called" | "repeated"

\* ClickHouseSync.sync_symbol and process_contract (specification SpecCH)
VARIABLES
    chTable,          \* the ClickHouse destination table
    chCkptDisk,       \* checkpoint_clickhouse.json
    chCkptMem,        \* ClickHouseCheckpoint._data
    chPc,             \* "idle" | "loop" | "consume" | "join"
    chSymbol,
    chIdx,
    chTotals,         \* total_processed, total_inserted
    chResult,
    chFaults,
    stats,            \* process_contract: stats["processed"], stats["inserted"]
    batch_queue,
    parse_done,
    parse_error,
    ptPc,             \* parser thread: "none" | "start" | "read" | "put" | "putlast" | "exit"
    ptPos,
    ptBatch,
    ptCount,
    chSkipped,        \* this run: contracts skipped as completed
    chCalled,         \* this run: contracts process_contract was called for
    chReturned,       \* this run: contracts process_contract returned for
    chEmitted,        \* this run: contract index -> records yielded
    chLoads,          \* this run: the insert_records calls, in order
    chDecodeErr       \* this run: contracts whose decoding raised

\* read_records called on its own on a file of bytes (specification SpecDec)
VARIABLES
    decFile,          \* the file at self.file_path: exists, bytes
    decSrc,           \* the values the file's complete records were packed from
    decArgs,          \* start_date, end_date, offset
    decPc,            \* "start" | "scan" | "eof" | "raise"
    decPos,           \* f.tell()
    decOut,           \* the records yielded so far
    decErr            \* the exception that left the generator, or None

\* resample_scid_to_1min called on its own (specification SpecRes)
VARIABLES
    resFile,          \* the file at file_path: exists, bytes
    resSrc,           \* the values the file's complete records were packed from
    resCall,          \* the arguments of the call and the entry of config.json
    resPc,            \* "start" | "clean" | "aggregate" | "done"
    resDf,            \* the frame df / df_clean: its rows, in order
    resOut            \* what the call returned or raised

\* a Checkpoint object and its backing file (specification SpecCk)
VARIABLES
    ckData,           \* Checkpoint._data
    ckDisk,           \* the file at Checkpoint.path: exists, doc
    ckSnap,           \* _data as it was at the last save
    ckPc,             \* "open" | "saved" | "reloaded"
    ckCalls,          \* set_completed / set_last_position calls so far
    ckNow,            \* the clock read by datetime.now()
    ckSet,            \* the (symbol, file name) keys set completed so far
    ckLast            \* the mutator call made last on this _data, if any

envVars == <<files, contracts>>
decVars == <<decFile, decSrc, decArgs, decPc, decPos, decOut, decErr>>
resVars == <<resFile, resSrc, resCall, resPc, resDf, resOut>>
ckVars == <<ckData, ckDisk, ckSnap, ckPc, ckCalls, ckNow, ckSet, ckLast>>
dbVars == <<dbTable, dbBatch, dbLast, dbPhase>>
chRunVars == <<chCkptDisk, chCkptMem, chPc, chSymbol, chIdx, chTotals,
               chResult, chFaults, stats, batch_queue, parse_done,
               parse_error, ptPc, ptPos, ptBatch, ptCount, chSkipped, chCalled,
               chReturned, chEmitted, chLoads, chDecodeErr>>
chVars == <<chTable, chRunVars>>
pgVars == <<table, ckptDisk, pc, symbol, ckptMem, idx, pos, batch,
            total_processed, total_inserted, result, nFaults,
            emitted, loads, finished, startDone, interrupted, rowsLost>>
vars == <<envVars, pgVars, dbVars, chVars, decVars, resVars, ckVars>>

ContractIdx == 1..Len(contracts)
NoEmitted == [i \in ContractIdx |-> <<>>]

InitEnv ==
    /\ files \in [Paths -> FileStates]
    /\ contracts \in ContractLists

InitPg ==
    /\ table = <<>>
    /\ ckptDisk = [exists |-> FALSE, doc |-> EmptyDict]
    /\ pc = "idle"
    /\ symbol = ""
    /\ ckptMem = Load(ckptDisk)
    /\ idx = 0
    /\ pos = 0
    /\ batch = <<>>
    /\ total_processed = 0
    /\ total_inserted = 0
    /\ result = "none"
    /\ nFaults = 0
    /\ emitted = NoEmitted
    /\ loads = <<>>
    /\ finished = {}
    /\ startDone = {}
    /\ interrupted = "no"
    /\ rowsLost = FALSE

NoCall == [pre |-> <<>>, fault |-> "none", ret |-> 0, raised |-> FALSE,
           again |-> FALSE]
InitDb ==
    /\ dbTable = <<>>
    /\ dbBatch = <<>>
    /\ dbLast = NoCall
    /\ dbPhase = "fresh"

NoStats == [processed |-> 0, inserted |-> 0]
InitChRun ==
    /\ chCkptDisk = [exists |-> FALSE, doc |-> EmptyDict]
    /\ chCkptMem = EmptyDict
    /\ chPc = "idle"
    /\ chSymbol = ""
    /\ chIdx = 0
    /\ chTotals = NoStats
    /\ chResult = "none"
    /\ chFaults = 0
    /\ stats = NoStats
    /\ batch_queue = <<>>
    /\ parse_done = FALSE
    /\ parse_error = None
    /\ ptPc = "none"
    /\ ptPos = 0
    /\ ptBatch = <<>>
    /\ ptCount = 0
    /\ chSkipped = {}
    /\ chCalled = {}
    /\ chReturned = {}
    /\ chEmitted = NoEmitted
    /\ chLoads = <<>>
    /\ chDecodeErr = {}
InitCh == chTable = <<>> /\ InitChRun

\* no read_records call of its own
InitDecIdle ==
    /\ decFile = [exists |-> FALSE, bytes |-> <<>>]
    /\ decSrc = <<>>
    /\ decArgs = [start_date |-> None, end_date |-> None, offset |-> 0]
    /\ decPc = "idle"
    /\ decPos = 0
    /\ decOut = <<>>
    /\ decErr = None

\* no resample_scid_to_1min call of its own
InitResIdle ==
    /\ resFile = [exists |-> FALSE, bytes |-> <<>>]
    /\ resSrc = <<>>
    /\ resCall = None
    /\ resPc = "idle"
    /\ resDf = <<>>
    /\ resOut = [kind |-> "idle", bars |-> <<>>]

\* no Checkpoint object of its own
InitCkIdle ==
    /\ ckData = EmptyDict
    /\ ckDisk = [exists |-> FALSE, doc |-> <<>>]
    /\ ckSnap = EmptyDict
    /\ ckPc = "idle"
    /\ ckCalls = 0
    /\ ckNow = 0
    /\ ckSet = {}
    /\ ckLast = None

InitIdle == InitDecIdle /\ InitResIdle /\ InitCkIdle

Init == InitEnv /\ InitPg /\ InitDb /\ InitCh /\ InitIdle

(***************************************************************************)
(* data_sync.py: DataSync.sync_symbol, one action per resumption.          *)
(***************************************************************************)
\* lines 136-151: configuration lookup, counters, db.connect()
SyncStart(sym) ==
    /\ pc = "idle"
    /\ symbol' = sym
    /\ emitted' = NoEmitted
    /\ loads' = <<>>
    /\ finished' = {}
    /\ IF ~HasSymbolConfig(sym)
       THEN /\ result' = "error"
            /\ startDone' = {}
            /\ UNCHANGED <<pc, idx, pos, batch, total_processed, total_inserted>>
       ELSE /\ result' = "running"
            /\ pc' = "loop"
            /\ idx' = 1
            /\ pos' = 0
            /\ batch' = <<>>
            /\ total_processed' = 0
            /\ total_inserted' = 0
            /\ startDone' = {i \in ContractIdx :
                                IsCompleted(ckptMem, sym, contracts[i].file)}
    /\ UNCHANGED <<envVars, decVars, resVars, ckVars, dbVars, chVars, table, ckptDisk, ckptMem, nFaults, interrupted, rowsLost>>

\* line 154 with the iterator exhausted, then 214-238: save, close, return
SyncFinish ==
    /\ pc = "loop"
    /\ idx > Len(contracts)
    /\ ckptDisk' = Save(ckptMem)
    /\ pc' = "idle"
    /\ result' = "stats"
    /\ idx' = 0
    /\ pos' = 0
    /\ UNCHANGED <<envVars, decVars, resVars, ckVars, dbVars, chVars, table, symbol, ckptMem, batch,
                   total_processed, total_inserted, nFaults, emitted,
                   loads, finished, startDone, interrupted, rowsLost>>

\* lines 154-159: the next contract's file does not exist
SkipMissing ==
    /\ pc = "loop"
    /\ idx <= Len(contracts)
    /\ ~files[contracts[idx].file].exists
    /\ idx' = idx + 1
    /\ UNCHANGED <<envVars, decVars, resVars, ckVars, dbVars, chVars, table, ckptDisk, pc, symbol, ckptMem, pos, batch,
                   total_processed, total_inserted, result, nFaults,
                   emitted, loads, finished, startDone, interrupted, rowsLost>>

\* lines 154-187: parser built, dates parsed, batch = [], generator created
OpenContract ==
    /\ pc = "loop"
    /\ idx <= Len(contracts)
    /\ files[contracts[idx].file].exists
    /\ pc' = "read"
    /\ pos' = 0
    /\ batch' = <<>>
    /\ UNCHANGED <<envVars, decVars, resVars, ckVars, dbVars, chVars, table, ckptDisk, symbol, ckptMem, idx,
                   total_processed, total_inserted, result, nFaults,
                   emitted, loads, finished, startDone, interrupted, rowsLost>>

\* the generator's next step for the open contract
Step ==
    LET cfg == contracts[idx]
        file == files[cfg.file]
    IN GeneratorStep(file, ExtractContract(cfg.file), DataSyncKwargs,
                     ParseDate(cfg.start_date), ParseDate(cfg.end_date), pos)

IsPrefix(s, t) == Len(s) <= Len(t) /\ \A k \in DOMAIN s : s[k] = t[k]
\* this run has added rows to the table
Committed == \E k \in DOMAIN loads : loads[k].ret > 0

\* one insert_records call of the run and its record in `loads`
DoInsert(rows, fault) ==
    LET ins == InsertRecords(table, rows, fault)
    IN /\ table' = ins.table
       /\ total_inserted' = total_inserted + ins.ret
       /\ loads' = Append(loads, [idx |-> idx, rows |-> rows,
                                  fault |-> fault, ret |-> ins.ret])
       /\ nFaults' = nFaults + (IF fault = "none" THEN 0 ELSE 1)
       /\ rowsLost' = (rowsLost \/ ~IsPrefix(table, ins.table))

FaultAllowed(fault) == fault = "none" \/ nFaults < MaxFaults

\* lines 187-196: a record is yielded and appended; a full batch is loaded,
\* the destination behaving as one of `faults`
ReadYieldF(faults) ==
    /\ pc = "read"
    /\ Step.kind = "yield"
    /\ LET batch1 == Append(batch, ToDbTuple(Step.rec))
       IN /\ pos' = Step.pos
          /\ total_processed' = total_processed + 1
          /\ emitted' = [emitted EXCEPT ![idx] = Append(@, Step.rec)]
          /\ IF Len(batch1) >= BatchSize
             THEN /\ \E fault \in faults :
                        FaultAllowed(fault) /\ DoInsert(batch1, fault)
                  /\ batch' = <<>>
             ELSE /\ batch' = batch1
                  /\ UNCHANGED <<table, total_inserted, loads, nFaults, rowsLost>>
    /\ UNCHANGED <<envVars, decVars, resVars, ckVars, dbVars, chVars, ckptDisk, pc, symbol, ckptMem, idx, result,
                   finished, startDone, interrupted>>

\* lines 204-212: the file is exhausted; the rest is loaded and the file is
\* marked completed in memory
ReadEofF(faults) ==
    /\ pc = "read"
    /\ Step.kind = "eof"
    /\ IF batch # <<>>
       THEN \E fault \in faults : FaultAllowed(fault) /\ DoInsert(batch, fault)
       ELSE UNCHANGED <<table, total_inserted, loads, nFaults, rowsLost>>
    /\ ckptMem' = SetCompleted(ckptMem, symbol, contracts[idx].file, TRUE)
    /\ finished' = finished \cup {idx}
    /\ idx' = idx + 1
    /\ pc' = "loop"
    /\ batch' = <<>>
    /\ UNCHANGED <<envVars, decVars, resVars, ckVars, dbVars, chVars, ckptDisk, symbol, pos, total_processed, result,
                   emitted, startDone, interrupted>>

ReadYield == ReadYieldF(Faults)
ReadEof == ReadEofF(Faults)

\* parse_header or _convert_sc_timestamp raises inside the generator: the
\* exception leaves sync_symbol through the finally clause (216-217)
ReadRaise ==
    /\ pc = "read"
    /\ Step.kind = "raise"
    /\ pc' = "idle"
    /\ result' = "exception"
    /\ idx' = 0
    /\ pos' = 0
    /\ batch' = <<>>
    /\ UNCHANGED <<envVars, decVars, resVars, ckVars, dbVars, chVars, table, ckptDisk, symbol, ckptMem,
                   total_processed, total_inserted, nFaults, emitted,
                   loads, finished, startDone, interrupted, rowsLost>>

\* the process is killed between two resumptions of sync_symbol
Crash ==
    /\ pc \in {"loop", "read"}
    /\ pc' = "dead"
    /\ result' = "killed"
    /\ interrupted' = IF interrupted = "after" \/ Committed THEN "after"
                      ELSE "before"
    /\ ckptMem' = EmptyDict
    /\ idx' = 0
    /\ pos' = 0
    /\ batch' = <<>>
    /\ total_processed' = 0
    /\ total_inserted' = 0
    /\ UNCHANGED <<envVars, decVars, resVars, ckVars, dbVars, chVars, table, ckptDisk, symbol, nFaults,
                   emitted, loads, finished, startDone, rowsLost>>

\* a new process: DataSync() builds Checkpoint(), which loads the file
Restart ==
    /\ \/ pc = "dead"
       \/ pc = "idle" /\ result \notin {"none", "running"}
    /\ pc' = "idle"
    /\ result' = "none"
    /\ ckptMem' = Load(ckptDisk)
    /\ symbol' = ""
    /\ idx' = 0
    /\ pos' = 0
    /\ batch' = <<>>
    /\ total_processed' = 0
    /\ total_inserted' = 0
    /\ emitted' = NoEmitted
    /\ loads' = <<>>
    /\ finished' = {}
    /\ startDone' = {}
    /\ UNCHANGED <<envVars, decVars, resVars, ckVars, dbVars, chVars, table, ckptDisk, nFaults, interrupted, rowsLost>>

Next ==
    \/ \E sym \in Symbols : SyncStart(sym)
    \/ SyncFinish
    \/ SkipMissing
    \/ OpenContract
    \/ ReadYield
    \/ ReadEof
    \/ ReadRaise
    \/ Crash
    \/ Restart

Spec == Init /\ [][Next]_vars

\* sync_symbol with the destination reachable and sound throughout
ReadYieldOk == ReadYieldF({"none"})
ReadEofOk == ReadEofF({"none"})
NextReliable ==
    \/ \E sym \in Symbols : SyncStart(sym)
    \/ SyncFinish
    \/ SkipMissing
    \/ OpenContract
    \/ ReadYieldOk
    \/ ReadEofOk
    \/ ReadRaise
    \/ Crash
    \/ Restart
SpecReliable == Init /\ [][NextReliable]_vars

(***************************************************************************)
(* DBManager.insert_records called on its own, with any batch.             *)
(***************************************************************************)
FixedEnv ==
    /\ files = [p \in Paths |-> AbsentFile]
    /\ contracts = <<ContractConfig(Path1, None, None),
                     ContractConfig(Path2, None, None)>>

\* the rows a caller may hand over: well-formed or rejected by the destination
DbRows ==
    {[ToDbTuple(SCIDRecord(raw, f, "ESZ24")) EXCEPT !.ok = ok] :
        raw \in 0..DbMaxTime, f \in 1..2, ok \in BOOLEAN}
DbBatches == UNION {[1..n -> DbRows] : n \in 0..MaxBatch}
\* the states of a table whose unique key is (datetime, raw_time)
DbTables ==
    {T \in UNION {[1..n -> {r \in DbRows : r.ok}] : n \in 0..(DbMaxTime + 1)} :
        \A i \in DOMAIN T : \A j \in DOMAIN T :
            KeyOf(T[i]) = KeyOf(T[j]) => i = j}

\* insert_records(table_name, dbBatch): the first call, then the call again
CallInsertRecords(fault) ==
    /\ dbPhase \in {"fresh", "called"}
    /\ LET ins == InsertRecords(dbTable, dbBatch, fault)
       IN /\ dbTable' = ins.table
          /\ dbLast' = [pre |-> dbTable, fault |-> fault, ret |-> ins.ret,
                        raised |-> ins.raised,
                        again |-> dbPhase = "called" /\ dbLast.fault # "down"]
    /\ dbPhase' = IF dbPhase = "fresh" THEN "called" ELSE "repeated"
    /\ UNCHANGED <<envVars, decVars, resVars, ckVars, pgVars, chVars, dbBatch>>

InitDB ==
    /\ FixedEnv /\ InitPg /\ InitCh /\ InitIdle
    /\ dbTable \in DbTables
    /\ dbBatch \in DbBatches
    /\ dbLast = NoCall
    /\ dbPhase = "fresh"
NextDB == \E fault \in Faults : CallInsertRecords(fault)
SpecDB == InitDB /\ [][NextDB]_vars

(***************************************************************************)
(* ClickHouseManager.insert_records called on its own, with any batch.     *)
(***************************************************************************)
CHFaults == {"none", "down"}

\* the states of a ClickHouse table: any rows, in insertion order
ChTables == UNION {[1..n -> {r \in DbRows : r.ok}] : n \in 0..(DbMaxTime + 1)}

\* db.insert_records(table_name, dbBatch): the first call, then the call again
CallCHInsertRecords(fault) ==
    /\ dbPhase \in {"fresh", "called"}
    /\ LET ins == CHInsertRecords(chTable, dbBatch, fault)
       IN /\ chTable' = ins.table
          /\ dbLast' = [pre |-> chTable, fault |-> fault, ret |-> ins.ret,
                        raised |-> ins.raised,
                        again |-> dbPhase = "called" /\ ~dbLast.raised]
    /\ dbPhase' = IF dbPhase = "fresh" THEN "called" ELSE "repeated"
    /\ UNCHANGED <<envVars, decVars, resVars, ckVars, pgVars, chRunVars, dbTable, dbBatch>>

InitCHM ==
    /\ FixedEnv /\ InitPg /\ InitChRun /\ InitIdle
    /\ chTable \in ChTables
    /\ dbTable = <<>>
    /\ dbBatch \in DbBatches
    /\ dbLast = NoCall
    /\ dbPhase = "fresh"
NextCHM == \E fault \in CHFaults : CallCHInsertRecords(fault)
SpecCHM == InitCHM /\ [][NextCHM]_vars

(***************************************************************************)
(* SCIDParser.read_records called on its own on a file of bytes.           *)
(***************************************************************************)
\* floats of the tick data: 0.0, 100.0, 101.25 and the bundle marker
\* FIRST_BUNDLE_TRADE, as sign / exponent / fraction
Float(sign, exp, frac) == [sign |-> sign, exp |-> exp, frac |-> frac]
F0 == Float(0, 0, 0)
F100 == Float(0, 133, 4718592)
F101 == Float(0, 133, 4882432)
FIRST_BUNDLE_TRADE == Float(1, 250, 7380729)

\* the values a record of a synthetic file is packed from
DecValues ==
    {[raw_time |-> raw, open |-> o, high |-> F101, low |-> F0, close |-> F100,
      num_trades |-> 1, volume |-> 258, bid_volume |-> 0,
      ask_volume |-> 66051] :
        raw \in RawTimes, o \in {F100, FIRST_BUNDLE_TRADE}}
DecBodies == UNION {[1..n -> DecValues] : n \in 0..DecMaxRecs}

\* a header as Sierra Chart writes it: 'SCID', header size 56, record size
\* 40, version 1, 0, 0 and 36 reserved bytes; and one whose id is not UTF-8
HeaderBytes ==
    <<83, 67, 73, 68>> \o PackUInt(HEADER_SIZE, 4) \o PackUInt(RECORD_SIZE, 4)
    \o PackUInt(1, 2) \o PackUInt(0, 2) \o PackUInt(0, 4)
    \o [i \in 1..36 |-> 0]
BadIdHeaderBytes == <<255, 255, 255, 255>> \o SubSeq(HeaderBytes, 5, HEADER_SIZE)

\* a trailing fragment: the first RECORD_SIZE - 1 bytes of a record
Fragment ==
    SubSeq(PackRecord(CHOOSE v \in DecValues :
                         v.raw_time = 0 /\ v.open = F100),
           1, RECORD_SIZE - 1)

\* the files read_records may be given, with the values of their records
DecFiles ==
    {[file |-> [exists |-> FALSE, bytes |-> <<>>], src |-> <<>>],
     [file |-> [exists |-> TRUE, bytes |-> SubSeq(HeaderBytes, 1, HEADER_SIZE - 1)],
      src |-> <<>>],
     [file |-> [exists |-> TRUE, bytes |-> BadIdHeaderBytes], src |-> <<>>]}
    \cup
    {[file |-> [exists |-> TRUE,
                bytes |-> HeaderBytes \o PackRecords(vs) \o frag],
      src |-> vs] : vs \in DecBodies, frag \in {<<>>, Fragment}}

\* the datetime arguments: None or an instant at a day boundary
DecDates == {None} \cup {Some(SC_EPOCH + k * TicksPerDay) : k \in 1..MaxTime}
\* the offset arguments: none, inside the header, the first record, the last
\* byte of the first record, the second record, the end of a two-record file
DecOffsets ==
    {0, HEADER_SIZE - 1, HEADER_SIZE, HEADER_SIZE + RECORD_SIZE - 1,
     HEADER_SIZE + RECORD_SIZE, HEADER_SIZE + 2 * RECORD_SIZE}

InitDec ==
    /\ FixedEnv /\ InitPg /\ InitDb /\ InitCh /\ InitResIdle /\ InitCkIdle
    /\ \E f \in DecFiles : decFile = f.file /\ decSrc = f.src
    /\ decArgs \in [start_date : DecDates, end_date : DecDates,
                     offset : DecOffsets]
    /\ decPc = "start"
    /\ decPos = 0
    /\ decOut = <<>>
    /\ decErr = None

decFrame == <<envVars, pgVars, dbVars, chVars, resVars, ckVars, decFile, decSrc, decArgs>>

\* lines 174-183, run by the first resumption of the generator: the file is
\* checked and opened, the header is parsed and the offset is applied
DecOpen ==
    /\ decPc = "start"
    /\ IF ~decFile.exists
       THEN /\ decPc' = "raise"
            /\ decErr' = Some("FileNotFoundError")
            /\ UNCHANGED decPos
       ELSE LET data == FileRead(decFile.bytes, 0, HEADER_SIZE)
            IN IF ParseHeaderBytesRaises(data)
               THEN /\ decPc' = "raise"
                    /\ decErr' = Some(IF Len(data) < HEADER_SIZE
                                       THEN "ValueError"
                                       ELSE "UnicodeDecodeError")
                    /\ decPos' = Len(data)
               ELSE /\ decPc' = "scan"
                    /\ decErr' = None
                    /\ decPos' = IF decArgs.offset > HEADER_SIZE
                                  THEN decArgs.offset ELSE HEADER_SIZE
    /\ UNCHANGED <<decFrame, decOut>>

\* lines 186-218: one iteration of the while loop
DecReadRecord ==
    /\ decPc = "scan"
    /\ LET buffer == FileRead(decFile.bytes, decPos, RECORD_SIZE)
       IN /\ decPos' = decPos + Len(buffer)
          /\ IF ShortRead(buffer)
             THEN /\ decPc' = "eof"
                  /\ UNCHANGED <<decOut, decErr>>
             ELSE IF UnpackRaises(buffer)
             THEN /\ decPc' = "raise"
                  /\ decErr' = Some("struct.error")
                  /\ UNCHANGED decOut
             ELSE LET fields == UnpackRecord(buffer)
                      raw_time == fields.raw_time
                  IN IF ConvertRaises(raw_time)
                     THEN /\ decPc' = "raise"
                          /\ decErr' = Some("OverflowError")
                          /\ UNCHANGED decOut
                     ELSE /\ UNCHANGED <<decPc, decErr>>
                          /\ decOut' =
                                IF Filtered(ConvertScTimestamp(raw_time),
                                            decArgs.start_date, decArgs.end_date)
                                THEN decOut
                                ELSE Append(decOut,
                                            SCIDRecord(raw_time,
                                                [f \in DOMAIN fields \ {"raw_time"} |-> fields[f]],
                                                ExtractContract(Path1)))
    /\ UNCHANGED decFrame

NextDec == DecOpen \/ DecReadRecord
SpecDec == InitDec /\ [][NextDec]_vars

(***************************************************************************)
(* resample_scid.py: resample_scid_to_1min.                                *)
(***************************************************************************)
\* SC_EPOCH_US = 2209161600000000, the microseconds from 1899-12-30 to
\* 1970-01-01, held as a count of periods of 10^8 microseconds; a day is
\* 24 * 36 such periods
SC_EPOCH_US_E8 == 22091616
DAY_US_E8 == 24 * 36

\* The resampler's clock is scaled on its own: MINUTE_US (60_000_000) is
\* TicksPerMinute model ticks, a day is 24 * 60 minutes, and SC_EPOCH_US is
\* the same 25569 days in these ticks.
MINUTE_US == TicksPerMinute
MINUTES_PER_DAY == 24 * 60
ResDayTicks == MINUTES_PER_DAY * MINUTE_US
SC_EPOCH_US == (SC_EPOCH_US_E8 \div DAY_US_E8) * ResDayTicks

\* float32 arithmetic on sign / exponent / fraction (no NaN among the data)
IsZero(f) == f.exp = 0 /\ f.frac = 0
MagLt(a, b) == a.exp < b.exp \/ (a.exp = b.exp /\ a.frac < b.frac)
FloatLt(a, b) ==
    IF IsZero(a) /\ IsZero(b) THEN FALSE
    ELSE IF a.sign # b.sign THEN a.sign = 1
    ELSE IF a.sign = 0 THEN MagLt(a, b) ELSE MagLt(b, a)
\* 1.0, 2.0 and 1e10 (= 2^33 * 1.1641532182693481)
F1 == [sign |-> 0, exp |-> 127, frac |-> 0]
F2 == [sign |-> 0, exp |-> 128, frac |-> 0]
F1e10 == [sign |-> 0, exp |-> 160, frac |-> 1377017]
\* x * m in float32 for a multiplier m that is 0.0 or a power of two.  The
\* magnitude of x is S * 2^(e - 150) with S the 24-bit significand; the
\* product keeps S and moves e, is renormalised when x is subnormal, rounds
\* to nearest-even when it falls below the normal range and becomes
\* infinite above it.
Hidden == 2 ^ 23
RECURSIVE NormUp(_, _)
NormUp(S, e) == IF S >= Hidden \/ e <= 1 THEN <<S, e>> ELSE NormUp(2 * S, e - 1)
RoundShift(S, n) ==
    IF n > 24 THEN 0
    ELSE LET q == S \div (2 ^ n)
             r == S % (2 ^ n)
             half == 2 ^ (n - 1)
         IN q + (IF r > half \/ (r = half /\ q % 2 = 1) THEN 1 ELSE 0)
FloatMul(f, m) ==
    LET sign == (f.sign + m.sign) % 2
        S == IF f.exp = 0 THEN f.frac ELSE Hidden + f.frac
        e == (IF f.exp = 0 THEN 1 ELSE f.exp) + m.exp - F1.exp
    IN IF S = 0 \/ IsZero(m) THEN [sign |-> sign, exp |-> 0, frac |-> 0]
       ELSE LET se == IF e >= 1 THEN NormUp(S, e)
                      ELSE <<RoundShift(S, 1 - e), 1>>
            IN IF se[2] >= 255 THEN [sign |-> sign, exp |-> 255, frac |-> 0]
               ELSE IF se[1] >= Hidden
                    THEN [sign |-> sign, exp |-> se[2], frac |-> se[1] - Hidden]
                    ELSE [sign |-> sign, exp |-> 0, frac |-> se[1]]

\* sciddtype (lines 55-65): the columns of one record
ScidRow(fields) ==
    [Time |-> fields.raw_time, Open |-> fields.open, High |-> fields.high,
     Low |-> fields.low, Close |-> fields.close, Trades |-> fields.num_trades,
     Volume |-> fields.volume, BidVolume |-> fields.bid_volume,
     AskVolume |-> fields.ask_volume]

\* np.memmap(f, dtype = sciddtype, offset = HEADER_SIZE, mode = "r"): the
\* shape is not given, so numpy raises ValueError when the bytes after the
\* offset are not a whole number of items
MemmapRaises(bytes) == (Len(bytes) - HEADER_SIZE) % RECORD_SIZE # 0
Memmap(bytes) ==
    [k \in 1..((Len(bytes) - HEADER_SIZE) \div RECORD_SIZE) |->
        ScidRow(UnpackRecord(SubSeq(bytes, HEADER_SIZE + RECORD_SIZE * (k - 1) + 1,
                                    HEADER_SIZE + RECORD_SIZE * k)))]

\* to_raw (lines 95-97) of a date given in days since 1970-01-01
ToRaw(d) == d * ResDayTicks + SC_EPOCH_US

\* lines 80-104: the limit, the dates of config.json and the date filter
Limited(data, limit) ==
    IF limit # None /\ limit[1] # 0 /\ limit[1] < Len(data)
    THEN SubSeq(data, 1, limit[1]) ELSE data
DatesOf(call) ==
    IF call.use_config /\ call.start_date = None /\ call.end_date = None
    THEN call.config ELSE <<call.start_date, call.end_date>>
DateFiltered(df, dates) ==
    LET NotBefore(r) == dates[1] = None \/ r.Time >= ToRaw(dates[1][1])
        Before(r) == dates[2] = None \/ r.Time < ToRaw(dates[2][1])
    IN SelectSeq(SelectSeq(df, NotBefore), Before)

\* line 114: mask = np.abs(df['Open']) < 1e10
Mask_KeepAll(row) == TRUE
Mask(row) == MagLt(row.Open, F1e10)

\* lines 122-125: the price multiplier
Scaled(row, m) ==
    IF m # F1
    THEN [row EXCEPT !.Open = FloatMul(@, m), !.High = FloatMul(@, m),
                     !.Low = FloatMul(@, m), !.Close = FloatMul(@, m)]
    ELSE row

\* line 134: df_clean.loc[df_clean['Open'] == 0.0, 'Open'] = df_clean['Close']
Repaired_Never(row) == row
Repaired(row) == IF IsZero(row.Open) THEN [row EXCEPT !.Open = row.Close] ELSE row

\* line 140
MinuteIndex(row) == row.Time \div MINUTE_US

\* groupby('MinuteIndex'): the keys in ascending order, and the rows of one
\* key in the order of the frame
RECURSIVE SortedKeys(_)
SortedKeys(S) ==
    IF S = {} THEN <<>>
    ELSE LET m == CHOOSE x \in S : \A y \in S : x <= y
         IN <<m>> \o SortedKeys(S \ {m})
GroupOf_AllRows(df, key) == df
GroupOf(df, key) == SelectSeq(df, LAMBDA r : MinuteIndex(r) = key)

\* the aggregations 'max', 'min' and 'sum' of one column of a group
RECURSIVE AggMax(_, _)
AggMax(g, col) ==
    IF Len(g) = 1 THEN g[1][col]
    ELSE LET m == AggMax(Tail(g), col)
         IN IF FloatLt(g[1][col], m) THEN m ELSE g[1][col]
RECURSIVE AggMin(_, _)
AggMin(g, col) ==
    IF Len(g) = 1 THEN g[1][col]
    ELSE LET m == AggMin(Tail(g), col)
         IN IF FloatLt(m, g[1][col]) THEN m ELSE g[1][col]
RECURSIVE AggSum(_, _)
AggSum(g, col) == IF g = <<>> THEN 0 ELSE g[1][col] + AggSum(Tail(g), col)

\* lines 145-159: one bar per key; the index is the instant of the minute
Bar(g, key) ==
    [DateTime |-> key * MINUTE_US - SC_EPOCH_US,
     Open |-> g[1].Open, High |-> AggMax(g, "High"), Low |-> AggMin(g, "Low"),
     Close |-> g[Len(g)].Close, Trades |-> AggSum(g, "Trades"),
     Volume |-> AggSum(g, "Volume"), BidVolume |-> AggSum(g, "BidVolume"),
     AskVolume |-> AggSum(g, "AskVolume")]
Resampled(df) ==
    LET keys == SortedKeys({MinuteIndex(df[k]) : k \in DOMAIN df})
    IN [i \in DOMAIN keys |-> Bar(GroupOf(df, keys[i]), keys[i])]

(***************************************************************************)
(* resample_scid_to_1min called on its own on a file of bytes.             *)
(***************************************************************************)
\* prices 64.0 <= p < 128.0 of the tick data, and the second bundle marker
Price(p) == Float(0, 133, (p - 64) * 131072)
LAST_BUNDLE_TRADE == Float(1, 250, 7380737)

\* 1970-01-02, in days since 1970-01-01, and its first tick as a raw_time
ResDay == 1
T0 == ToRaw(ResDay)

Tick(t, o, h, l, c, n, v, b, a) ==
    [raw_time |-> t, open |-> o, high |-> h, low |-> l, close |-> c,
     num_trades |-> n, volume |-> v, bid_volume |-> b, ask_volume |-> a]
\* 2^-126, the smallest normal float32, and 2^-25: their float32 product is
\* 0.0, the nearest value to 2^-151
FMinNormal == Float(0, 1, 0)
FSmall == Float(0, 102, 0)
\* The ticks a synthetic file is made of.  Three regular ticks in the first
\* minute of 1970-01-02, the second with Open = 0.0; a bundle marker at the
\* time of the second; in the minute before, a regular tick, one with
\* Open = 0.0 and the other bundle marker; in the minute after, a regular
\* tick that opens at 2^-25 and closes at 1.0.
ResTicks ==
    { Tick(T0, Price(100), Price(101), Price(100), Price(101), 1, 1, 0, 1),
      Tick(T0 + 1, F0, Price(103), Price(103), Price(103), 1, 2, 2, 0),
      Tick(T0 + 2, Price(102), Price(104), Price(102), Price(104), 2, 3, 1, 2),
      Tick(T0 + 1, FIRST_BUNDLE_TRADE, Price(105), Price(99), Price(99), 1, 4, 4, 0),
      Tick(T0 - MINUTE_US, Price(101), Price(102), Price(100), Price(100), 1, 1, 1, 0),
      Tick(T0 - 2, F0, Price(99), Price(99), Price(99), 3, 5, 0, 5),
      Tick(T0 - 1, LAST_BUNDLE_TRADE, Price(105), Price(98), Price(105), 1, 6, 0, 6),
      Tick(T0 + MINUTE_US, FSmall, F1, FSmall, F1, 1, 1, 1, 0) }
\* file bodies: up to ResMaxRecs different ticks, in any order
ResBodies ==
    {vs \in UNION {[1..n -> ResTicks] : n \in 0..ResMaxRecs} :
        \A i \in DOMAIN vs : \A j \in DOMAIN vs : vs[i] = vs[j] => i = j}
ResFiles ==
    {[file |-> [exists |-> FALSE, bytes |-> <<>>], src |-> <<>>],
     [file |-> [exists |-> TRUE, bytes |-> SubSeq(HeaderBytes, 1, HEADER_SIZE - 1)],
      src |-> <<>>]}
    \cup
    {[file |-> [exists |-> TRUE,
                bytes |-> HeaderBytes \o PackRecords(vs) \o frag],
      src |-> vs] : vs \in ResBodies, frag \in {<<>>, Fragment}}

\* the calls: the defaults, and the defaults with one argument given (a
\* start date, an end date, both, a limit, a price multiplier of 2.0, of 0.0
\* or of 2^-126) or with an entry for the file in config.json
DefaultCall ==
    [start_date |-> None, end_date |-> None, limit |-> None,
     price_multiplier |-> F1, use_config |-> TRUE, config |-> <<None, None>>]
ResCalls ==
    { DefaultCall,
      [DefaultCall EXCEPT !.start_date = Some(ResDay)],
      [DefaultCall EXCEPT !.end_date = Some(ResDay)],
      [DefaultCall EXCEPT !.start_date = Some(ResDay), !.end_date = Some(ResDay)],
      [DefaultCall EXCEPT !.limit = Some(1)],
      [DefaultCall EXCEPT !.price_multiplier = F2],
      [DefaultCall EXCEPT !.price_multiplier = F0],
      [DefaultCall EXCEPT !.price_multiplier = FMinNormal],
      [DefaultCall EXCEPT !.config = <<Some(ResDay), None>>] }

Running == [kind |-> "running", bars |-> <<>>]
Returned(kind, bars) == [kind |-> kind, bars |-> bars]

InitRes ==
    /\ FixedEnv /\ InitPg /\ InitDb /\ InitCh /\ InitDecIdle /\ InitCkIdle
    /\ \E f \in ResFiles : resFile = f.file /\ resSrc = f.src
    /\ resCall \in ResCalls
    /\ resPc = "start"
    /\ resDf = <<>>
    /\ resOut = Running

resFrame == <<envVars, pgVars, dbVars, chVars, decVars, ckVars, resFile, resSrc, resCall>>

\* lines 39-108: the file is checked and mapped, the limit and the date
\* filter are applied
ResLoad ==
    /\ resPc = "start"
    /\ IF ~resFile.exists \/ Len(resFile.bytes) < HEADER_SIZE
       THEN resPc' = "done" /\ resOut' = Returned("None", <<>>) /\ resDf' = <<>>
       ELSE IF MemmapRaises(resFile.bytes)
       THEN resPc' = "done" /\ resOut' = Returned("ValueError", <<>>) /\ resDf' = <<>>
       ELSE LET df == DateFiltered(Limited(Memmap(resFile.bytes), resCall.limit),
                                   DatesOf(resCall))
            IN /\ resDf' = df
               /\ IF df = <<>>
                  THEN resPc' = "done" /\ resOut' = Returned("None", <<>>)
                  ELSE resPc' = "clean" /\ resOut' = resOut
    /\ UNCHANGED resFrame

\* lines 110-134: bundle markers are dropped, prices are multiplied, zero
\* opens are repaired
ResClean ==
    /\ resPc = "clean"
    /\ LET df_clean == SelectSeq(resDf, Mask)
       IN /\ resDf' = [k \in DOMAIN df_clean |->
                          Repaired(Scaled(df_clean[k], resCall.price_multiplier))]
          /\ IF df_clean = <<>>
             THEN resPc' = "done" /\ resOut' = Returned("None", <<>>)
             ELSE resPc' = "aggregate" /\ resOut' = resOut
    /\ UNCHANGED resFrame

\* lines 140-174: the ticks are grouped by minute and aggregated
ResAggregate ==
    /\ resPc = "aggregate"
    /\ resPc' = "done"
    /\ resOut' = Returned("frame", Resampled(resDf))
    /\ UNCHANGED <<resFrame, resDf>>

NextRes == ResLoad \/ ResClean \/ ResAggregate
SpecRes == InitRes /\ [][NextRes]_vars

(***************************************************************************)
(* data_sync.py: Checkpoint, and clickhouse_sync.py: ClickHouseCheckpoint, *)
(* used on their own: mutators, save, load and a new object on the same    *)
(* path.                                                                   *)
(***************************************************************************)
\* at most this many mutator calls in one run
CkMaxCalls == 2
\* a file of Path1's name in another directory
Path3 == [dir |-> "archive", name |-> Path1.name]
CkPaths == Paths \cup {Path3}
CkPositions == {HEADER_SIZE, HEADER_SIZE + RECORD_SIZE}

\* Checkpoint(checkpoint_path) on a path where no file exists yet
InitCk ==
    /\ FixedEnv /\ InitPg /\ InitDb /\ InitCh /\ InitDecIdle /\ InitResIdle
    /\ ckDisk = [exists |-> FALSE, doc |-> <<>>]
    /\ ckData = Load(ckDisk)
    /\ ckSnap = EmptyDict
    /\ ckPc = "open"
    /\ ckCalls = 0
    /\ ckNow = 0
    /\ ckSet = {}
    /\ ckLast = None

ckFrame == <<envVars, pgVars, dbVars, chVars, decVars, resVars>>

\* set_completed(symbol, file_path, completed)
CkSetCompleted ==
    /\ ckPc # "idle" /\ ckCalls < CkMaxCalls
    /\ \E sym \in Symbols, fp \in CkPaths, done \in BOOLEAN :
          /\ ckData' = SetCompleted(ckData, sym, fp, done)
          /\ ckSet' = ckSet \cup {<<sym, PathName(fp)>>}
          /\ ckLast' = Some([op |-> "set_completed", symbol |-> sym,
                             file_path |-> fp, arg |-> done])
    /\ ckCalls' = ckCalls + 1
    /\ ckPc' = "open"
    /\ UNCHANGED <<ckFrame, ckDisk, ckSnap, ckNow>>

\* set_last_position(symbol, file_path, position); the clock has moved on
\* since the call before
CkSetLastPosition ==
    /\ ckPc # "idle" /\ ckCalls < CkMaxCalls
    /\ ckNow' = ckNow + 1
    /\ \E sym \in Symbols, fp \in CkPaths, posn \in CkPositions :
          /\ ckData' = SetLastPosition(ckData, sym, fp, posn, ckNow')
          /\ ckLast' = Some([op |-> "set_last_position", symbol |-> sym,
                             file_path |-> fp, arg |-> posn])
    /\ ckCalls' = ckCalls + 1
    /\ ckPc' = "open"
    /\ UNCHANGED <<ckFrame, ckDisk, ckSnap, ckSet>>

\* save()
CkSave ==
    /\ ckPc # "idle"
    /\ ckDisk' = Save(ckData)
    /\ ckSnap' = ckData
    /\ ckPc' = "saved"
    /\ UNCHANGED <<ckFrame, ckData, ckCalls, ckNow, ckSet, ckLast>>

\* load() on the same object
CkLoad ==
    /\ ckPc # "idle"
    /\ ckData' = Load(ckDisk)
    /\ ckPc' = IF ckPc = "saved" THEN "reloaded" ELSE "open"
    /\ ckLast' = None
    /\ UNCHANGED <<ckFrame, ckDisk, ckSnap, ckCalls, ckNow, ckSet>>

\* Checkpoint(checkpoint_path) again on the same path: __init__ empties
\* _data and calls load()
CkNew ==
    /\ ckPc # "idle"
    /\ ckData' = (IF ckDisk.exists THEN JsonLoad(ckDisk.doc) ELSE EmptyDict)
    /\ ckPc' = IF ckPc = "saved" THEN "reloaded" ELSE "open"
    /\ ckLast' = None
    /\ UNCHANGED <<ckFrame, ckDisk, ckSnap, ckCalls, ckNow, ckSet>>

NextCk == CkSetCompleted \/ CkSetLastPosition \/ CkSave \/ CkLoad \/ CkNew
SpecCk == InitCk /\ [][NextCk]_vars

(***************************************************************************)
(* clickhouse_sync.py: ClickHouseSync.sync_symbol and process_contract.    *)
(***************************************************************************)
\* the checkpoint documents a run may find on disk
CkptDocs ==
    {[exists |-> FALSE, doc |-> EmptyDict]} \cup
    {Save([sym \in {ConfiguredSymbol} |->
             [n \in {PathName(q) : q \in done} |-> [completed |-> TRUE]]]) :
        done \in SUBSET Paths}

InitCH ==
    /\ InitEnv /\ InitPg /\ InitDb /\ InitIdle
    /\ chCkptDisk \in CkptDocs
    /\ chCkptMem = Load(chCkptDisk)
    /\ chTable = <<>>
    /\ chPc = "idle"
    /\ chSymbol = ""
    /\ chIdx = 0
    /\ chTotals = NoStats
    /\ chResult = "none"
    /\ chFaults = 0
    /\ stats = NoStats
    /\ batch_queue = <<>>
    /\ parse_done = FALSE
    /\ parse_error = None
    /\ ptPc = "none"
    /\ ptPos = 0
    /\ ptBatch = <<>>
    /\ ptCount = 0
    /\ chSkipped = {}
    /\ chCalled = {}
    /\ chReturned = {}
    /\ chEmitted = NoEmitted
    /\ chLoads = <<>>
    /\ chDecodeErr = {}

chFrame == <<envVars, decVars, resVars, ckVars, pgVars, dbVars>>

\* lines 193-213
CHSyncStart(sym) ==
    /\ chPc = "idle"
    /\ chSymbol' = sym
    /\ chSkipped' = {}
    /\ chCalled' = {}
    /\ chReturned' = {}
    /\ chEmitted' = NoEmitted
    /\ chLoads' = <<>>
    /\ chDecodeErr' = {}
    /\ IF ~HasSymbolConfig(sym)
       THEN /\ chResult' = "error"
            /\ UNCHANGED <<chPc, chIdx, chTotals>>
       ELSE /\ chResult' = "running"
            /\ chPc' = "loop"
            /\ chIdx' = 1
            /\ chTotals' = NoStats
    /\ UNCHANGED <<chFrame, chTable, chCkptDisk, chCkptMem, chFaults, stats,
                   batch_queue, parse_done, parse_error, ptPc, ptPos, ptBatch,
                   ptCount>>

\* line 215 with the iterator exhausted, then 243-262
CHSyncFinish ==
    /\ chPc = "loop"
    /\ chIdx > Len(contracts)
    /\ chPc' = "idle"
    /\ chResult' = "stats"
    /\ UNCHANGED <<chFrame, chTable, chCkptDisk, chCkptMem, chSymbol, chIdx,
                   chTotals, chFaults, stats, batch_queue, parse_done,
                   parse_error, ptPc, ptPos, ptBatch, ptCount, chSkipped,
                   chCalled, chReturned, chEmitted, chLoads, chDecodeErr>>

\* lines 215-221: the checkpoint reports the file completed
CHSkipCompleted ==
    /\ chPc = "loop"
    /\ chIdx <= Len(contracts)
    /\ SkipContract(chCkptMem, chSymbol, contracts[chIdx].file)
    /\ chIdx' = chIdx + 1
    /\ chSkipped' = chSkipped \cup {chIdx}
    /\ UNCHANGED <<chFrame, chTable, chCkptDisk, chCkptMem, chPc, chSymbol,
                   chTotals, chResult, chFaults, stats, batch_queue,
                   parse_done, parse_error, ptPc, ptPos, ptBatch, ptCount,
                   chCalled, chReturned, chEmitted, chLoads, chDecodeErr>>

\* lines 233-241: sync_symbol takes the result of process_contract for the
\* contract at chIdx, and the parser thread is no longer looked at
ReturnToSync(st) ==
    /\ chTotals' = [processed |-> chTotals.processed + st.processed,
                    inserted |-> chTotals.inserted + st.inserted]
    /\ IF ShouldMarkCompleted(st)
       THEN /\ chCkptMem' = SetCompleted(chCkptMem, chSymbol,
                                         contracts[chIdx].file, TRUE)
            /\ chCkptDisk' = Save(chCkptMem')
       ELSE UNCHANGED <<chCkptMem, chCkptDisk>>
    /\ chReturned' = chReturned \cup {chIdx}
    /\ chIdx' = chIdx + 1
    /\ chPc' = "loop"

\* lines 223, 81-94: process_contract is called and the file does not exist
CHMissingFile ==
    /\ chPc = "loop"
    /\ chIdx <= Len(contracts)
    /\ ~SkipContract(chCkptMem, chSymbol, contracts[chIdx].file)
    /\ ~files[contracts[chIdx].file].exists
    /\ chCalled' = chCalled \cup {chIdx}
    /\ stats' = NoStats
    /\ ReturnToSync(NoStats)
    /\ UNCHANGED <<chFrame, chTable, chSymbol, chResult, chFaults,
                   batch_queue, parse_done, parse_error, ptPc, ptPos, ptBatch,
                   ptCount, chSkipped, chEmitted, chLoads, chDecodeErr>>

\* lines 223, 81-135: process_contract is called, the file exists, the queue
\* and the event are created and the parser thread is started
CHProcessContract ==
    /\ chPc = "loop"
    /\ chIdx <= Len(contracts)
    /\ ~SkipContract(chCkptMem, chSymbol, contracts[chIdx].file)
    /\ files[contracts[chIdx].file].exists
    /\ chCalled' = chCalled \cup {chIdx}
    /\ stats' = NoStats
    /\ batch_queue' = <<>>
    /\ parse_done' = FALSE
    /\ parse_error' = None
    /\ ptPc' = "start"
    /\ ptPos' = 0
    /\ ptBatch' = <<>>
    /\ ptCount' = 0
    /\ chPc' = "consume"
    /\ UNCHANGED <<chFrame, chTable, chCkptDisk, chCkptMem, chSymbol, chIdx,
                   chTotals, chResult, chFaults, chSkipped, chReturned,
                   chEmitted, chLoads, chDecodeErr>>

\* the generator's next step in the parser thread
PtStep ==
    LET cfg == contracts[chIdx]
    IN GeneratorStep(files[cfg.file], ExtractContract(cfg.file),
                     ParserThreadKwargs, ParseDate(cfg.start_date),
                     ParseDate(cfg.end_date), ptPos)

\* a thread that sets the event only at the end of a run without exception
EventAfterError_Unset(done) == done
\* lines 128-131: the finally block sets parse_done after an exception too
EventAfterError(done) == TRUE

\* lines 109-131: one step of parser_thread.  "start" and "read" advance the
\* generator; "put" and "putlast" are batch_queue.put, which blocks while
\* the queue is full; an exception is stored and the event is set.
ParserThread ==
    /\ chPc \in {"consume", "join"}
    /\ CASE ptPc \in {"start", "read"} /\ PtStep.kind = "raise" ->
                /\ parse_error' = Some("Exception")
                /\ parse_done' = EventAfterError(parse_done)
                /\ ptPc' = "exit"
                /\ chDecodeErr' = chDecodeErr \cup {chIdx}
                /\ UNCHANGED <<ptPos, ptBatch, ptCount, batch_queue, chEmitted>>
         [] ptPc \in {"start", "read"} /\ PtStep.kind = "yield" ->
                /\ ptPos' = PtStep.pos
                /\ ptBatch' = Append(ptBatch, ToDbTuple(PtStep.rec))
                /\ ptCount' = ptCount + 1
                /\ chEmitted' = [chEmitted EXCEPT ![chIdx] = Append(@, PtStep.rec)]
                /\ ptPc' = IF Len(ptBatch) + 1 >= BatchSize THEN "put" ELSE "read"
                /\ UNCHANGED <<parse_error, parse_done, batch_queue, chDecodeErr>>
         [] ptPc \in {"start", "read"} /\ PtStep.kind = "eof" ->
                /\ IF ptBatch # <<>>
                   THEN ptPc' = "putlast" /\ UNCHANGED parse_done
                   ELSE ptPc' = "exit" /\ parse_done' = TRUE
                /\ UNCHANGED <<ptPos, ptBatch, ptCount, parse_error,
                               batch_queue, chEmitted, chDecodeErr>>
         [] ptPc \in {"put", "putlast"} ->
                /\ Len(batch_queue) < QUEUE_MAXSIZE
                /\ batch_queue' = Append(batch_queue,
                                         [batch |-> ptBatch, count |-> ptCount])
                /\ ptBatch' = <<>>
                /\ IF ptPc = "put"
                   THEN ptPc' = "read" /\ UNCHANGED parse_done
                   ELSE ptPc' = "exit" /\ parse_done' = TRUE
                /\ UNCHANGED <<ptPos, ptCount, parse_error, chEmitted,
                               chDecodeErr>>
         [] OTHER -> FALSE
    /\ UNCHANGED <<chFrame, chTable, chCkptDisk, chCkptMem, chPc, chSymbol,
                   chIdx, chTotals, chResult, chFaults, stats,
                   chSkipped, chCalled, chReturned, chLoads>>

\* lines 140-155 and 166-171: one iteration of the consuming loop.  It
\* breaks when the event is set and the queue is empty; otherwise it takes
\* a batch and inserts it, or times out on the empty queue and goes round
\* again.  An insert that raises ends process_contract with the statistics
\* gathered so far.
MainLoop ==
    /\ chPc = "consume"
    /\ IF parse_done /\ batch_queue = <<>>
       THEN /\ chPc' = "join"
            /\ UNCHANGED <<chTable, chCkptDisk, chCkptMem, chIdx, chTotals,
                           chFaults, stats, batch_queue, chReturned, chLoads>>
       ELSE IF batch_queue = <<>>
       THEN UNCHANGED <<chTable, chCkptDisk, chCkptMem, chPc, chIdx, chTotals,
                        chFaults, stats, batch_queue, chReturned, chLoads>>
       ELSE \E fault \in CHFaults :
              /\ fault = "none" \/ chFaults < MaxFaults
              /\ LET item == Head(batch_queue)
                     ins == CHInsertRecords(chTable, item.batch, fault)
                     st == [processed |-> item.count,
                            inserted |-> stats.inserted + ins.ret]
                 IN /\ batch_queue' = Tail(batch_queue)
                    /\ chTable' = ins.table
                    /\ stats' = st
                    /\ chFaults' = chFaults + (IF fault = "none" THEN 0 ELSE 1)
                    /\ chLoads' = Append(chLoads,
                                         [idx |-> chIdx, rows |-> item.batch,
                                          fault |-> fault, ret |-> ins.ret,
                                          raised |-> ins.raised])
                    /\ IF ins.raised
                       THEN ReturnToSync(st)
                       ELSE UNCHANGED <<chCkptDisk, chCkptMem, chIdx, chTotals,
                                        chPc, chReturned>>
    /\ UNCHANGED <<chFrame, chSymbol, chResult, parse_done,
                   parse_error, ptPc, ptPos, ptBatch, ptCount, chSkipped,
                   chCalled, chEmitted, chDecodeErr>>

\* lines 157-171: join the parser thread; a stored exception is raised and
\* caught by the handler of process_contract, which returns the statistics
MainJoin ==
    /\ chPc = "join"
    /\ ptPc = "exit"
    /\ ReturnToSync(stats)
    /\ UNCHANGED <<chFrame, chTable, chSymbol, chResult, chFaults,
                   stats, batch_queue, parse_done, parse_error, ptPc, ptPos,
                   ptBatch, ptCount, chSkipped, chCalled, chEmitted, chLoads,
                   chDecodeErr>>

\* a new process: ClickHouseSync() builds ClickHouseCheckpoint(), which loads
CHRestart ==
    /\ chPc = "idle"
    /\ chResult \notin {"none", "running"}
    /\ chResult' = "none"
    /\ chCkptMem' = Load(chCkptDisk)
    /\ chSymbol' = ""
    /\ chIdx' = 0
    /\ chTotals' = NoStats
    /\ stats' = NoStats
    /\ batch_queue' = <<>>
    /\ parse_done' = FALSE
    /\ parse_error' = None
    /\ ptPc' = "none"
    /\ ptPos' = 0
    /\ ptBatch' = <<>>
    /\ ptCount' = 0
    /\ chSkipped' = {}
    /\ chCalled' = {}
    /\ chReturned' = {}
    /\ chEmitted' = NoEmitted
    /\ chLoads' = <<>>
    /\ chDecodeErr' = {}
    /\ UNCHANGED <<chFrame, chTable, chCkptDisk, chPc, chFaults>>

NextCH ==
    \/ \E sym \in Symbols : CHSyncStart(sym)
    \/ CHSyncFinish
    \/ CHSkipCompleted
    \/ CHMissingFile
    \/ CHProcessContract
    \/ ParserThread
    \/ MainLoop
    \/ MainJoin
    \/ CHRestart

SpecCH == InitCH /\ [][NextCH]_vars

(***************************************************************************)
(* Both programs on one machine, one sync_symbol call at a time: DataSync  *)
(* against PostgreSQL and ClickHouseSync against ClickHouse, over the same *)
(* contract files, each with its own checkpoint and destination.           *)
(***************************************************************************)
GoodFile == [exists |-> TRUE, hdrLen |-> HEADER_SIZE, recs |-> Body(<<1, 1, 2>>)]
CfgFileStates == {AbsentFile, ShortFile, GoodFile}

InitCfg ==
    /\ InitCH
    /\ files \in [Paths -> CfgFileStates]

NextCfg ==
    \/ \E sym \in Symbols : chPc = "idle" /\ SyncStart(sym)
    \/ SyncFinish
    \/ SkipMissing
    \/ OpenContract
    \/ ReadYieldOk
    \/ ReadEofOk
    \/ ReadRaise
    \/ Crash
    \/ Restart
    \/ \E sym \in Symbols : pc = "idle" /\ CHSyncStart(sym)
    \/ CHSyncFinish
    \/ CHSkipCompleted
    \/ CHMissingFile
    \/ CHProcessContract
    \/ ParserThread
    \/ MainLoop
    \/ MainJoin
    \/ CHRestart

SpecCfg == InitCfg /\ [][NextCfg]_vars

\* ClickHouseSync alone on these files, with both threads of the pipeline
\* scheduled: the parser thread runs whenever it can take a step, and the
\* main thread goes on polling the queue (get with a timeout) and joining
SpecPipe ==
    /\ InitCfg /\ [][NextCH]_vars
    /\ WF_vars(ParserThread) /\ WF_vars(MainLoop) /\ WF_vars(MainJoin)

(***************************************************************************)
(* Reference values the claims compare the run against.                    *)
(***************************************************************************)
NoDupKeys(T) ==
    \A i \in DOMAIN T : \A j \in DOMAIN T : KeyOf(T[i]) = KeyOf(T[j]) => i = j

FileOf(i) == files[contracts[i].file]

\* the instant of a record lies in [start_date, end_date) of contract i
InOwnRange(i, raw) ==
    LET cfg == contracts[i]
        dt == SC_EPOCH + raw
    IN /\ (cfg.start_date # None => cfg.start_date[1] * TicksPerDay <= dt)
       /\ (cfg.end_date # None => dt < cfg.end_date[1] * TicksPerDay)

\* the raw_time values of the records of file i that lie in its own range
RECURSIVE RawInRange(_, _)
RawInRange(i, k) ==
    IF k > Len(FileOf(i).recs) THEN <<>>
    ELSE LET raw == FileOf(i).recs[k].raw_time
         IN (IF InOwnRange(i, raw) THEN <<[raw_time |-> raw, fields |-> k]>>
             ELSE <<>>) \o RawInRange(i, k + 1)

EmittedRaw(i) ==
    [k \in DOMAIN emitted[i] |->
        [raw_time |-> emitted[i][k].raw_time, fields |-> emitted[i][k].fields]]


\* the table an uninterrupted, fault-free sync_symbol run leaves, from the
\* table T and contract i on
RECURSIVE UninterruptedFile(_, _, _, _)
UninterruptedFile(T, i, p, b) ==
    LET cfg == contracts[i]
        st == GeneratorStep(FileOf(i), ExtractContract(cfg.file), DataSyncKwargs,
                            ParseDate(cfg.start_date), ParseDate(cfg.end_date), p)
    IN CASE st.kind = "raise" -> [table |-> T, raised |-> TRUE]
         [] st.kind = "eof" ->
                [table |-> InsertRecords(T, b, "none").table, raised |-> FALSE]
         [] OTHER ->
                LET b1 == Append(b, ToDbTuple(st.rec))
                IN IF Len(b1) >= BatchSize
                   THEN UninterruptedFile(InsertRecords(T, b1, "none").table,
                                          i, st.pos, <<>>)
                   ELSE UninterruptedFile(T, i, st.pos, b1)

RECURSIVE UninterruptedRun(_, _)
UninterruptedRun(T, i) ==
    IF i > Len(contracts) THEN T
    ELSE IF ~FileOf(i).exists THEN UninterruptedRun(T, i + 1)
    ELSE LET f == UninterruptedFile(T, i, 0, <<>>)
         IN IF f.raised THEN f.table ELSE UninterruptedRun(f.table, i + 1)

\* the decode-batch-load loop of DataSync.sync_symbol over contract file i
\* (lines 183-207): the batches it passes to insert_records, in call order,
\* and the number of records it counts as processed
RECURSIVE SequentialBatches(_, _, _, _, _)
SequentialBatches(i, p, b, out, n) ==
    LET cfg == contracts[i]
        st == GeneratorStep(FileOf(i), ExtractContract(cfg.file), DataSyncKwargs,
                            ParseDate(cfg.start_date), ParseDate(cfg.end_date), p)
    IN CASE st.kind = "raise" ->
                [batches |-> out, processed |-> n, raised |-> TRUE]
         [] st.kind = "eof" ->
                [batches |-> IF b = <<>> THEN out ELSE Append(out, b),
                 processed |-> n, raised |-> FALSE]
         [] OTHER ->
                LET b1 == Append(b, ToDbTuple(st.rec))
                IN IF Len(b1) >= BatchSize
                   THEN SequentialBatches(i, st.pos, <<>>, Append(out, b1), n + 1)
                   ELSE SequentialBatches(i, st.pos, b1, out, n + 1)

RunEnded == pc = "idle" /\ result \in {"stats", "exception"}

\* a file read_records can decode to its end
Decodable(file) ==
    /\ file.exists
    /\ ~ParseHeaderRaises(file)
    /\ \A k \in DOMAIN file.recs : ~ConvertRaises(file.recs[k].raw_time)

(***************************************************************************)
(* Claims about DataSync.sync_symbol (specification Spec).                 *)
(***************************************************************************)

\* C2: when a sync_symbol run was killed and sync_symbol is then run again to
\* its end with the destination reachable throughout, the destination holds
\* exactly the rows an uninterrupted run leaves: no load has removed or
\* changed a row committed earlier, and no (datetime, raw_time) key occurs
\* twice.
C2_ResumeLeavesSingleRunRows ==
    /\ ~rowsLost
    /\ (interrupted # "no" /\ RunEnded /\ nFaults = 0) =>
          /\ Rows(table) = Rows(UninterruptedRun(<<>>, 1))
          /\ NoDupKeys(table)

\* C2 witness: a run was killed after it had committed rows, and the rerun
\* completed, met those rows again and added further rows.
C2_Witness ==
    /\ interrupted = "after"
    /\ pc = "idle" /\ result = "stats" /\ nFaults = 0
    /\ Len(loads) >= 2
    /\ \E k \in DOMAIN loads : loads[k].ret = 0 /\ loads[k].rows # <<>>
    /\ Committed

RolloverConfig ==
    /\ Len(contracts) = 2
    /\ contracts[1].end_date # None
    /\ contracts[1].end_date = contracts[2].start_date

RawSet(recs) == {recs[k].raw_time : k \in DOMAIN recs}
LoadedRaw(i) ==
    UNION {RawSet(loads[k].rows) : k \in {n \in DOMAIN loads : loads[n].idx = i}}

\* C3: with contracts configured [d0,d1) and [d1,d2), the raw_time values
\* emitted (and those passed to the loader) for the first contract are
\* disjoint from those of the second, no record at the instant d1 is emitted
\* for the first contract, and the records emitted for a file are, in file
\* order and once each, the records of the file that lie in its own range.
C3_Rollover ==
    /\ RolloverConfig =>
          /\ RawSet(emitted[1]) \cap RawSet(emitted[2]) = {}
          /\ LoadedRaw(1) \cap LoadedRaw(2) = {}
          /\ \A k \in DOMAIN emitted[1] :
                emitted[1][k].datetime # contracts[1].end_date[1] * TicksPerDay
    /\ \A i \in ContractIdx :
          /\ IsPrefix(EmittedRaw(i), RawInRange(i, 1))
          /\ i \in finished => EmittedRaw(i) = RawInRange(i, 1)

\* C3 witness: a completed rollover run in which both files hold a record at
\* the instant d1, the first contract emitted something, and the second
\* emitted the record at d1.
C3_Witness ==
    /\ RolloverConfig /\ finished = {1, 2}
    /\ emitted[1] # <<>>
    /\ \E k \in DOMAIN FileOf(1).recs :
          SC_EPOCH + FileOf(1).recs[k].raw_time
             = contracts[1].end_date[1] * TicksPerDay
    /\ \E k \in DOMAIN emitted[2] :
          emitted[2][k].datetime = contracts[1].end_date[1] * TicksPerDay

DownLoads == {k \in DOMAIN loads : loads[k].fault = "down"}

\* C4: a contract file one of whose batch loads failed (destination
\* unreachable) is not recorded as completed, in memory or on disk.
C4_LoaderErrorNeverCompletes ==
    \A k \in DownLoads :
        loads[k].idx \notin startDone =>
            /\ ~IsCompleted(ckptMem, symbol, contracts[loads[k].idx].file)
            /\ ~IsCompleted(Load(ckptDisk), symbol, contracts[loads[k].idx].file)

\* C5: when a run stops (exception or kill) after some contract files were
\* fully decoded and loaded, checkpoint.json records those files as completed.
C5_CompletionPersistedPerFile ==
    result \in {"exception", "killed"} =>
        \A i \in finished :
            IsCompleted(Load(ckptDisk), symbol, contracts[i].file)

\* C7: a contract file the checkpoint reports completed when a run starts is
\* neither decoded nor passed to insert_records in that run.
C7_SkipsCompleted ==
    \A i \in startDone :
        /\ ~(pc = "read" /\ idx = i)
        /\ emitted[i] = <<>>
        /\ \A k \in DOMAIN loads : loads[k].idx # i

\* C10: after a batch load hit an unreachable destination, sync_symbol does
\* not return normal statistics and no later contract file is processed.
C10_ConnectivityFailureAborts ==
    \A k \in DownLoads :
        /\ result # "stats"
        /\ \A j \in ContractIdx :
              j > loads[k].idx =>
                 /\ ~(pc = "read" /\ idx = j)
                 /\ emitted[j] = <<>>
                 /\ j \notin finished

\* C11: a decode error in one contract file is fatal to that file only: when
\* a sync_symbol run has ended, every contract file that exists and can be
\* decoded to its end has been decoded and loaded in that run.
C11_DecodeErrorFatalToFileOnly ==
    RunEnded =>
        \A j \in ContractIdx : Decodable(FileOf(j)) => j \in finished


(***************************************************************************)
(* Claim about DBManager.insert_records (specification SpecDB).            *)
(***************************************************************************)
AllOk(records) == \A k \in DOMAIN records : records[k].ok

\* C1: insert_records is idempotent on (datetime, raw_time): for any table
\* and any batch no call raises, the table never holds two rows with one key,
\* and the rows already in the table stay as they are; a batch of well-formed
\* rows whose keys are all in the table leaves it unchanged, and so does
\* calling again with the batch of a call that reached the destination.
C1_InsertRecordsIdempotent ==
    /\ NoDupKeys(dbTable)
    /\ ~dbLast.raised
    /\ dbPhase # "fresh" =>
          /\ IsPrefix(dbLast.pre, dbTable)
          /\ (AllOk(dbBatch) /\ Keys(dbBatch) \subseteq Keys(dbLast.pre))
                => dbTable = dbLast.pre
          /\ (AllOk(dbBatch) /\ dbLast.again) => dbTable = dbLast.pre

\* C1 witness: a batch of two well-formed rows with different keys, one of
\* them new to the table, was loaded and then loaded again, and the second
\* call left the table as it was.
C1_Witness ==
    /\ dbPhase = "repeated" /\ dbLast.again /\ AllOk(dbBatch)
    /\ Len(dbBatch) = 2
    /\ KeyOf(dbBatch[1]) # KeyOf(dbBatch[2])
    /\ dbTable = dbLast.pre
    /\ Len(dbTable) = 2
    /\ dbBatch[2] \in Rows(dbTable)
    /\ dbBatch[1] \notin Rows(dbTable)

\* C15: the count insert_records returns is the number of rows the call
\* added to the destination, on the bulk path and on the row-by-row path
\* alike; a batch whose keys are all present returns 0.
C15_ReturnsNetNewCount ==
    dbPhase # "fresh" =>
        /\ dbLast.ret = Len(dbTable) - Len(dbLast.pre)
        /\ Keys(dbBatch) \subseteq Keys(dbLast.pre) => dbLast.ret = 0

\* the first well-formed row of the batch that carries the key of row k
FirstOfKey(records, k) ==
    \A j \in 1..(k - 1) : records[j].ok => KeyOf(records[j]) # KeyOf(records[k])

\* C16: one bad row cannot abort a batch: when the batch holds a malformed
\* row and the destination is reachable, insert_records does not raise, no
\* malformed row enters the table, and every well-formed row of the batch
\* whose key was not in the destination is in the destination afterwards.
C16_BadRowDoesNotAbortBatch ==
    (dbPhase # "fresh" /\ ~AllOk(dbBatch) /\ dbLast.fault # "down") =>
        /\ ~dbLast.raised
        /\ \A r \in Rows(dbTable) : r.ok
        /\ \A k \in DOMAIN dbBatch :
              dbBatch[k].ok =>
                 /\ KeyOf(dbBatch[k]) \in Keys(dbTable)
                 /\ ( KeyOf(dbBatch[k]) \notin Keys(dbLast.pre)
                      /\ FirstOfKey(dbBatch, k) ) => dbBatch[k] \in Rows(dbTable)

\* C16 witness: a batch whose first row is malformed and whose second row is
\* well-formed and new was loaded into a non-empty table, with no fault of
\* the destination, and the second row was added.
C16_Witness ==
    /\ dbPhase = "called" /\ dbLast.fault = "none"
    /\ Len(dbBatch) = 2 /\ ~dbBatch[1].ok /\ dbBatch[2].ok
    /\ dbLast.pre # <<>>
    /\ KeyOf(dbBatch[2]) \notin Keys(dbLast.pre)
    /\ dbTable = Append(dbLast.pre, dbBatch[2])

\* the rows of the last call whose execute raised during row-by-row insertion
RejectedCount ==
    IF dbLast.fault = "none" /\ AllOk(dbBatch) THEN 0
    ELSE Cardinality({k \in DOMAIN dbBatch :
                         dbLast.fault = "down" \/ ~dbBatch[k].ok})

\* C17: the rows rejected during a batch load are counted for the caller:
\* the rows of the batch that the returned count does not report as inserted
\* are the rejected rows.
C17_RejectedRowsCounted ==
    dbPhase # "fresh" => Len(dbBatch) - dbLast.ret = RejectedCount

(***************************************************************************)
(* Claims about ClickHouseSync.sync_symbol (specification SpecCH).         *)
(***************************************************************************)

C8_ExhaustedFileMarkedCompleted ==
    \A i \in chReturned :
        ( /\ Decodable(FileOf(i))
          /\ \A k \in DOMAIN chLoads : chLoads[k].idx = i => ~chLoads[k].raised )
        => /\ CHIsCompleted(chCkptMem, chSymbol, contracts[i].file)
           /\ CHIsCompleted(Load(chCkptDisk), chSymbol, contracts[i].file)

RECURSIVE BatchesOf(_, _)
BatchesOf(ls, i) ==
    IF ls = <<>> THEN <<>>
    ELSE (IF Head(ls).idx = i THEN <<Head(ls).rows>> ELSE <<>>)
         \o BatchesOf(Tail(ls), i)

\* C12: the pipelined mode is equivalent to the sequential mode: when
\* process_contract has returned for a well-formed contract file none of
\* whose loads met a fault, it has passed to insert_records the sequence of
\* batches the sequential loop of DataSync.sync_symbol passes for that file,
\* and it reports the same processed count.
C12_PipelineEquivalentToSequential ==
    \A i \in chReturned :
        ( /\ chPc \in {"loop", "idle"} /\ i = chIdx - 1
          /\ Decodable(FileOf(i))
          /\ \A k \in DOMAIN chLoads : chLoads[k].idx = i => ~chLoads[k].raised )
        => LET seq == SequentialBatches(i, 0, <<>>, <<>>, 0)
           IN /\ BatchesOf(chLoads, i) = seq.batches
              /\ stats.processed = seq.processed

(***************************************************************************)
(* Claim about ClickHouseManager.insert_records (specification SpecCHM).   *)
(***************************************************************************)

\* C18: ClickHouseManager.insert_records is idempotent on (datetime,
\* raw_time): loading again the batch of a call that succeeded leaves the
\* row count of the destination as it was, and the call reports 0 new rows.
C18_CHInsertRecordsIdempotent ==
    (dbPhase = "repeated" /\ dbLast.again /\ ~dbLast.raised) =>
        /\ Len(chTable) = Len(dbLast.pre)
        /\ dbLast.ret = 0

(***************************************************************************)
(* Claims about SCIDParser.read_records (specification SpecDec).           *)
(***************************************************************************)
FieldsOf(v) == [f \in DOMAIN v \ {"raw_time"} |-> v[f]]
ScanEnded == decPc \in {"eof", "raise"}

\* the record at position k of the output carries the values v
Carries(k, v) ==
    /\ decOut[k].raw_time = v.raw_time
    /\ decOut[k].fields = FieldsOf(v)

\* the file is a header followed by the packed records and nothing else
HeaderAndRecords == decFile.exists /\ decFile.bytes = HeaderBytes \o PackRecords(decSrc)

\* C19: decoder round trip: for a file made of a 56-byte header followed by
\* n 40-byte records, read_records without date bounds ends normally having
\* yielded n records, in file order, whose raw_time, open, high, low, close
\* and volume fields are the values the records were packed from, bundle
\* markers included.
C19_DecoderRoundTrip ==
    ( /\ ScanEnded /\ HeaderAndRecords
      /\ decArgs = [start_date |-> None, end_date |-> None, offset |-> 0] )
    => /\ decPc = "eof"
       /\ Len(decOut) = Len(decSrc)
       /\ \A k \in DOMAIN decOut : Carries(k, decSrc[k])

\* the instant of the record lies in [start_date, end_date) of the call
InBounds(v) ==
    LET dt == SC_EPOCH + v.raw_time
    IN /\ (decArgs.start_date # None => decArgs.start_date[1] <= dt)
       /\ (decArgs.end_date # None => dt < decArgs.end_date[1])

\* C20: date filtering: for any start_date and end_date, each optional, the
\* scan of a file runs to the end of the file and the records yielded are
\* exactly the records of the file with start_date <= datetime < end_date,
\* in file order; records out of range are skipped and do not stop the scan.
C20_DateFiltering ==
    ( /\ ScanEnded /\ decFile.exists
      /\ FileRead(decFile.bytes, 0, HEADER_SIZE) = HeaderBytes
      /\ decArgs.offset = 0 )
    => LET expected == SelectSeq(decSrc, InBounds)
       IN /\ decPc = "eof"
          /\ Len(decOut) = Len(expected)
          /\ \A k \in DOMAIN decOut :
                /\ Carries(k, expected[k])
                /\ decOut[k].datetime = SC_EPOCH + expected[k].raw_time

\* C21: timestamp conversion is exact for every raw_time of the u64 range:
\* the decoder produces 1899-12-30T00:00:00Z + raw_time microseconds for each
\* record it reads, without raising, and the resampler's epoch offset
\* (2209161600000000 microseconds) names the same origin, so both map a
\* raw_time to the same instant.
C21_TimestampConversionExact ==
    /\ decErr # Some("OverflowError")
    /\ \A k \in DOMAIN decOut :
          decOut[k].datetime = SC_EPOCH + decOut[k].raw_time
    /\ SC_EPOCH_US_E8 = (0 - SC_EPOCH_DAYS) * DAY_US_E8

\* the read at the current position returns a fragment: some bytes, fewer
\* than a record
\* the scan that starts at offset o reads whole records of the file
OnRecordBoundary(o) == o <= HEADER_SIZE \/ (o - HEADER_SIZE) % RECORD_SIZE = 0
AtFragment ==
    /\ decPc = "scan"
    /\ Len(FileRead(decFile.bytes, decPos, RECORD_SIZE)) \in 1..(RECORD_SIZE - 1)

\* C22: a trailing fragment shorter than 40 bytes ends decoding as a normal
\* end of file: when the scan comes to the fragment every complete record
\* before it has been read and, where it lies within the date bounds, yielded;
\* the fragment yields nothing and the generator ends without raising.
C22_TrailingFragmentIsEof ==
    [][AtFragment =>
          /\ decPc' = "eof" /\ decErr' = None /\ decOut' = decOut
          /\ OnRecordBoundary(decArgs.offset) =>
                decPos = HEADER_SIZE + RECORD_SIZE * Len(decSrc)
          /\ decArgs.offset = 0 =>
                LET expected == SelectSeq(decSrc, InBounds)
                IN /\ Len(decOut) = Len(expected)
                   /\ \A k \in DOMAIN decOut : Carries(k, expected[k])]_vars
C22_Witness ==
    /\ decPc = "eof" /\ decErr = None
    /\ decFile.bytes = HeaderBytes \o PackRecords(decSrc) \o Fragment
    /\ decPos = Len(decFile.bytes)
    /\ Len(decSrc) = DecMaxRecs /\ Len(decOut) = Len(decSrc)

\* C23: parse_header fails with an error whenever fewer than 56 bytes are
\* available, and read_records then yields no record at all; with 56 or more
\* bytes available it consumes exactly 56 bytes and returns a header, so
\* that the scan of the records begins.
C23_ParseHeader ==
    [][(decPc = "start" /\ decFile.exists) =>
          IF Len(decFile.bytes) < HEADER_SIZE
          THEN decPc' = "raise" /\ decErr' # None /\ decOut' = <<>>
          ELSE /\ decPc' = "scan" /\ decErr' = None
               /\ decArgs.offset = 0 => decPos' = HEADER_SIZE]_vars

(***************************************************************************)
(* Claims about resample_scid_to_1min (specification SpecRes).  The        *)
(* reference below is stated on the values the file was packed from.       *)
(***************************************************************************)
\* the file is a header followed by whole records
ResWellFormed == resFile.exists /\ resFile.bytes = HeaderBytes \o PackRecords(resSrc)
\* the date bounds in force: those of the call, else those of config.json
ResBounds ==
    IF resCall.start_date = None /\ resCall.end_date = None
    THEN resCall.config ELSE <<resCall.start_date, resCall.end_date>>
ResInRange(v) ==
    /\ (ResBounds[1] # None => v.raw_time >= T0 + (ResBounds[1][1] - ResDay) * ResDayTicks)
    /\ (ResBounds[2] # None => v.raw_time < T0 + (ResBounds[2][1] - ResDay) * ResDayTicks)
\* Open is a bundle marker: in float32 the only values within 1e10 of a
\* sentinel are the sentinels themselves
Marker(v) == v.open \in {FIRST_BUNDLE_TRADE, LAST_BUNDLE_TRADE}
NotMarker(v) == ~Marker(v)
\* the ticks the call is about, and those of them that are regular
RangeTicks ==
    SelectSeq(IF resCall.limit = None THEN resSrc
              ELSE SubSeq(resSrc, 1, IF resCall.limit[1] < Len(resSrc)
                                     THEN resCall.limit[1] ELSE Len(resSrc)),
              ResInRange)
CleanTicks == SelectSeq(RangeTicks, NotMarker)
BucketOf(v) == v.raw_time \div MINUTE_US
Buckets == {BucketOf(CleanTicks[k]) : k \in DOMAIN CleanTicks}
InBucket(b) == {k \in DOMAIN CleanTicks : BucketOf(CleanTicks[k]) = b}
\* a price of a cleaned tick as the bars show it
Shown(x) == FloatMul(x, resCall.price_multiplier)
\* the Open a cleaned tick enters the aggregation with: its Close where
\* its Open, as shown, is 0.0
CleanOpen(v) == IF IsZero(Shown(v.open)) THEN Shown(v.close) ELSE Shown(v.open)
RECURSIVE SumOver(_, _)
SumOver(K, col) ==
    IF K = {} THEN 0
    ELSE LET k == CHOOSE x \in K : TRUE
         IN CleanTicks[k][col] + SumOver(K \ {k}, col)
\* the bucket a bar stands for
BarBucket(bar) == (bar.DateTime + SC_EPOCH_US) \div MINUTE_US
Bars == resOut.bars
GotFrame == resPc = "done" /\ resOut.kind = "frame"

C25_OpenCloseChronological ==
    GotFrame =>
        \A i \in DOMAIN Bars :
            LET K == InBucket(BarBucket(Bars[i]))
            IN \A k \in K :
                  /\ (\A j \in K : CleanTicks[k].raw_time <= CleanTicks[j].raw_time)
                        => Bars[i].Open = CleanOpen(CleanTicks[k])
                  /\ (\A j \in K : CleanTicks[j].raw_time <= CleanTicks[k].raw_time)
                        => Bars[i].Close = Shown(CleanTicks[k].close)

\* the example of the claim: ticks at t0 < t1 < t2 in one bucket with opens
\* [100, 0, 102] and closes [101, 103, 104], resampled with the defaults
ExampleTicks ==
    << Tick(T0, Price(100), Price(101), Price(100), Price(101), 1, 1, 0, 1),
       Tick(T0 + 1, F0, Price(103), Price(103), Price(103), 1, 2, 2, 0),
       Tick(T0 + 2, Price(102), Price(104), Price(102), Price(104), 2, 3, 1, 2) >>
IsExample == ResWellFormed /\ resSrc = ExampleTicks /\ resCall = DefaultCall
\* the first cleaned tick of bucket b in the frame
FirstIn(b) == CHOOSE k \in InBucket(b) : \A j \in InBucket(b) : k <= j

\* C26: zero-open repair: before aggregation every regular tick whose Open
\* equals 0 has its Open replaced by its own Close (other ticks keep their
\* Open), so a bar that begins with such a tick shows that tick's Close as
\* its Open, not 0; for ticks at t0 < t1 < t2 in one bucket with opens
\* [100, 0, 102] and closes [101, 103, 104] the middle tick is aggregated
\* with Open 103 and the bar has Open = 100 and Close = 104.
C26_ZeroOpenRepair ==
    /\ resPc = "aggregate" =>
          /\ Len(resDf) = Len(CleanTicks)
          /\ \A k \in DOMAIN resDf :
                /\ IsZero(CleanTicks[k].open)
                      => resDf[k].Open = Shown(CleanTicks[k].close)
                /\ ~IsZero(Shown(CleanTicks[k].open))
                      => resDf[k].Open = Shown(CleanTicks[k].open)
          /\ IsExample => resDf[2].Open = Price(103)
    /\ GotFrame =>
          /\ \A i \in DOMAIN Bars :
                LET first == CleanTicks[FirstIn(BarBucket(Bars[i]))]
                IN /\ ~IsZero(Shown(first.close)) => ~IsZero(Bars[i].Open)
                   /\ IsZero(first.open) => Bars[i].Open = Shown(first.close)
          /\ IsExample =>
                /\ Len(Bars) = 1
                /\ Bars[1].Open = Price(100) /\ Bars[1].Close = Price(104)
\* the example has been resampled
C26_Witness ==
    /\ GotFrame /\ IsExample
    /\ Bars[1].Open = Price(100) /\ Bars[1].Close = Price(104)
    /\ resDf[2].Open = Price(103) /\ IsZero(resSrc[2].open)

\* the in-range ticks of bucket b in file order, markers included, and the
\* regular ticks among them
RangeOf(b) == SelectSeq(RangeTicks, LAMBDA v : BucketOf(v) = b)
RegularOf(b) == SelectSeq(RangeOf(b), NotMarker)

\* C27: bundle filtering: every tick whose Open is within 1e10 of either
\* bundle sentinel is excluded from the Open, High, Low and Close of every
\* bar, whatever its volume fields are: each of the four values of a bar is
\* taken from the regular ticks of its bucket alone, no bar's Open is a
\* sentinel, and a bucket that holds only marker ticks has no bar.
C27_BundleFiltering ==
    GotFrame =>
        /\ \A i \in DOMAIN Bars :
              LET reg == RegularOf(BarBucket(Bars[i]))
              IN /\ reg # <<>>
                 /\ Bars[i].Open = CleanOpen(reg[1])
                 /\ Bars[i].Close = Shown(reg[Len(reg)].close)
                 /\ \E k \in DOMAIN reg : Bars[i].High = Shown(reg[k].high)
                 /\ \A k \in DOMAIN reg : ~FloatLt(Bars[i].High, Shown(reg[k].high))
                 /\ \E k \in DOMAIN reg : Bars[i].Low = Shown(reg[k].low)
                 /\ \A k \in DOMAIN reg : ~FloatLt(Shown(reg[k].low), Bars[i].Low)
                 /\ MagLt(Bars[i].Open, F1e10)
        /\ \A k \in DOMAIN RangeTicks :
              RegularOf(BucketOf(RangeTicks[k])) = <<>> =>
                  \A i \in DOMAIN Bars : BarBucket(Bars[i]) # BucketOf(RangeTicks[k])
\* a bar of a bucket whose first tick in the file is a marker with non-zero
\* volume, a High above and a Low below those of the bar
C27_Witness ==
    /\ GotFrame
    /\ \E i \in DOMAIN Bars :
          LET all == RangeOf(BarBucket(Bars[i]))
          IN /\ Marker(all[1]) /\ all[1].volume > 0
             /\ FloatLt(Bars[i].High, Shown(all[1].high))
             /\ FloatLt(Shown(all[1].low), Bars[i].Low)

\* C28: when no tick remains after date filtering and cleaning (empty file
\* body, no tick in range, or only bundle-marker ticks), the resampler
\* returns an empty bar sequence and does not signal an error.
C28_EmptyInputGivesEmptyBars ==
    (resPc = "done" /\ ResWellFormed /\ CleanTicks = <<>>)
        => resOut = Returned("frame", <<>>)


\* C29: a save followed by a load, or by a new Checkpoint on the same path,
\* gives a store in which is_completed and get_last_position return, for
\* every symbol and file, what they returned before the save; the store
\* itself comes back unchanged.
C29_SaveLoadRoundTrip ==
    ckPc = "reloaded" =>
        /\ \A sym \in Symbols, fp \in CkPaths :
              /\ IsCompleted(ckData, sym, fp)
                    = IsCompleted(ckSnap, sym, fp)
              /\ CHIsCompleted(ckData, sym, fp)
                    = CHIsCompleted(ckSnap, sym, fp)
              /\ GetLastPosition(ckData, sym, fp)
                    = GetLastPosition(ckSnap, sym, fp)
        /\ ckData = ckSnap

\* a reloaded store holding a completed file and a file with a position
C29_Witness ==
    /\ ckPc = "reloaded"
    /\ IsCompleted(ckData, "ES", Path1)
    /\ GetLastPosition(ckData, "ES", Path2) = HEADER_SIZE + RECORD_SIZE
    /\ ~IsCompleted(ckData, "ES", Path2)

\* C30: is_completed is false for every (sym, file name) that
\* set_completed was never called with: an unknown sym, a known symbol
\* with an unknown file, an entry that has only a last position, and a
\* store loaded from a missing file.
C30_NeverSetIsNotCompleted ==
    ckPc # "idle" =>
        \A sym \in Symbols, fp \in CkPaths :
            <<sym, PathName(fp)>> \notin ckSet =>
                /\ ~IsCompleted(ckData, sym, fp)
                /\ ~CHIsCompleted(ckData, sym, fp)

\* one symbol with a completed file and a file that has only a position,
\* the other symbol unknown
C30_Witness ==
    /\ ckPc # "idle"
    /\ ckSet = {<<"ES", PathName(Path2)>>}
    /\ IsCompleted(ckData, "ES", Path2)
    /\ GetLastPosition(ckData, "ES", Path1) = HEADER_SIZE + RECORD_SIZE
    /\ "ZZ" \notin DOMAIN ckData
    /\ ~IsCompleted(ckData, "ES", Path1) /\ ~IsCompleted(ckData, "ZZ", Path1)


\* the entry of one (symbol, file name), empty when there is none
Entry(data, sym, name) == DictGet(DictGet(data, sym, EmptyDict), name, EmptyDict)
\* the step is a mutator call
CkCalled == ckCalls' = ckCalls + 1
\* the step repeats the mutator call made just before it
CkRepeats ==
    /\ CkCalled /\ ckLast # None
    /\ ckLast'[1].op = ckLast[1].op
    /\ ckLast'[1].symbol = ckLast[1].symbol
    /\ ckLast'[1].file_path = ckLast[1].file_path
    /\ ckLast'[1].arg = ckLast[1].arg
\* the step leaves the entries of every other (symbol, file name) alone
CkOthersUnchanged ==
    \A sym \in Symbols, fp \in CkPaths :
        <<sym, PathName(fp)>> # <<ckLast'[1].symbol, PathName(ckLast'[1].file_path)>>
            => Entry(ckData', sym, PathName(fp)) = Entry(ckData, sym, PathName(fp))

\* C31: a mutator call that repeats the call before it (set_completed with
\* the same symbol, file and flag, or set_last_position with the same
\* symbol, file and position) leaves the store as the first call left it,
\* and every mutator call leaves the entries of all other (symbol, file)
\* keys unchanged.
C31_MutatorsIdempotent ==
    [][CkCalled => /\ CkRepeats => ckData' = ckData
                   /\ CkOthersUnchanged]_vars


\* the step is a call of DataSync.sync_symbol / ClickHouseSync.sync_symbol
DsCall == pc = "idle" /\ symbol' \in Symbols /\ pgVars' # pgVars
ChCall == chPc = "idle" /\ chSymbol' \in Symbols /\ chRunVars' # chRunVars

\* C32: sync_symbol called for a symbol that has no configuration returns
\* the error result at once, in DataSync and in ClickHouseSync: no
\* connection is opened (the call never enters its contract loop, and
\* process_contract is never called), no file is decoded, no batch is
\* loaded, and the destination table, the checkpoint in memory and the
\* checkpoint file are left as they were.
C32_MissingSymbolConfigFailsFast ==
    [][/\ (DsCall /\ symbol' # ConfiguredSymbol) =>
             /\ result' = "error" /\ pc' = "idle"
             /\ emitted' = NoEmitted /\ loads' = <<>> /\ finished' = {}
             /\ UNCHANGED <<table, ckptMem, ckptDisk, nFaults>>
       /\ (ChCall /\ chSymbol' # ConfiguredSymbol) =>
             /\ chResult' = "error" /\ chPc' = "idle"
             /\ chCalled' = {} /\ chEmitted' = NoEmitted /\ chLoads' = <<>>
             /\ UNCHANGED <<chTable, chCkptMem, chCkptDisk, chFaults, ptPc,
                            batch_queue>>]_vars

\* both programs have returned the error result, DataSync with rows in its
\* table and a saved checkpoint from an earlier run, ClickHouseSync with a
\* checkpoint file on disk
C32_Witness ==
    /\ result = "error" /\ pc = "idle" /\ symbol = "ZZ"
    /\ chResult = "error" /\ chPc = "idle" /\ chSymbol = "ZZ"
    /\ table # <<>> /\ ckptDisk.exists /\ chCkptDisk.exists
    /\ loads = <<>> /\ chLoads = <<>>


\* the parser thread of the current process_contract call is running
PtAlive == ptPc \in {"start", "read", "put", "putlast"}

CleanFirstRun ==
    /\ pc = "idle" /\ result = "stats"
    /\ nFaults = 0 /\ interrupted = "no"
    /\ Len(table) = total_inserted

\* C35: after a sync_symbol run that completed without error on an empty
\* table, the table holds a row for every tick the run decoded, and as many
\* rows as the run reports processed, also when two ticks of a file carry
\* the same raw_time.
C35_NoTickLost ==
    CleanFirstRun =>
        /\ Len(table) = total_processed
        /\ \A i \in ContractIdx : \A k \in DOMAIN emitted[i] :
              \E r \in DOMAIN table : table[r] = ToDbTuple(emitted[i][k])


\* the step is set_completed(ckLast'.symbol, ckLast'.file_path, True)
CkMarked ==
    CkCalled /\ ckLast'[1].op = "set_completed" /\ ckLast'[1].arg = TRUE

\* C36: marking a file completed for a symbol does not make is_completed
\* true for any other file path of that symbol, in Checkpoint and in
\* ClickHouseCheckpoint, also when the two paths lie in different
\* directories and share their file name.
C36_DistinctFilesIndependent ==
    [][CkMarked =>
          \A fp \in CkPaths \ {ckLast'[1].file_path} :
              /\ IsCompleted(ckData', ckLast'[1].symbol, fp)
                    = IsCompleted(ckData, ckLast'[1].symbol, fp)
              /\ CHIsCompleted(ckData', ckLast'[1].symbol, fp)
                    = CHIsCompleted(ckData, ckLast'[1].symbol, fp)]_vars


\* the frame the call read: the mapped records after the limit and the
\* date filter
InputFrame ==
    DateFiltered(Limited(Memmap(resFile.bytes), resCall.limit), DatesOf(resCall))
\* the cleaning in the specified order: non-regular ticks dropped, then
\* Open := Close where Open = 0.0, then the four prices multiplied
SpecifiedCleaning(df, m) ==
    LET regular == SelectSeq(df, Mask)
    IN [k \in DOMAIN regular |-> Scaled(Repaired(regular[k]), m)]

\* C37: the bars a call returns are the bars aggregated from the ticks
\* cleaned in the specified order (drop non-regular ticks, repair zero
\* opens, multiply), for every file and every price multiplier, 0.0 and
\* multipliers that take a non-zero Open to 0.0 included.
C37_CleaningOrder ==
    GotFrame => Bars = Resampled(SpecifiedCleaning(InputFrame, resCall.price_multiplier))


\* the sum of one column over a sequence of bars or of ticks
RECURSIVE SeqSum(_, _)
SeqSum(seq, col) ==
    IF seq = <<>> THEN 0 ELSE Head(seq)[col] + SeqSum(Tail(seq), col)

\* C38: volume conservation: over the bars a call returns, Trades, Volume,
\* BidVolume and AskVolume each add up to the sum of that field over all
\* in-range ticks of the file, the ticks whose Open is a bundle marker
\* included.
C38_VolumeConservation ==
    (GotFrame /\ ResWellFormed) =>
        /\ SeqSum(Bars, "Trades") = SeqSum(RangeTicks, "num_trades")
        /\ SeqSum(Bars, "Volume") = SeqSum(RangeTicks, "volume")
        /\ SeqSum(Bars, "BidVolume") = SeqSum(RangeTicks, "bid_volume")
        /\ SeqSum(Bars, "AskVolume") = SeqSum(RangeTicks, "ask_volume")


\* the rows of the in-range ticks read_records yields from contract file i,
\* from position p on
RECURSIVE DecodedRows(_, _)
DecodedRows(i, p) ==
    LET cfg == contracts[i]
        st == GeneratorStep(FileOf(i), ExtractContract(cfg.file), DataSyncKwargs,
                            ParseDate(cfg.start_date), ParseDate(cfg.end_date), p)
    IN IF st.kind = "yield" THEN <<ToDbTuple(st.rec)>> \o DecodedRows(i, st.pos)
       ELSE <<>>
RECURSIVE Flat(_)
Flat(bs) == IF bs = <<>> THEN <<>> ELSE Head(bs) \o Flat(Tail(bs))
\* the insert_records calls ls are well-formed batches: 1 to batch_size
\* rows, all of the contract file the call was made for
BatchesWellFormed(ls) ==
    \A k \in DOMAIN ls :
        /\ Len(ls[k].rows) \in 1..BatchSize
        /\ \A r \in DOMAIN ls[k].rows :
              ls[k].rows[r].contract = ExtractContract(contracts[ls[k].idx].file)
\* the batches of contract file i among the calls ls are full except the
\* last, and together they are the file's in-range ticks, in order
BatchesCover(ls, i) ==
    LET bs == BatchesOf(ls, i)
    IN /\ \A j \in 1..(Len(bs) - 1) : Len(bs[j]) = BatchSize
       /\ Flat(bs) = DecodedRows(i, 0)

\* C39: in DataSync and in ClickHouseSync every batch passed to
\* insert_records holds 1 to batch_size rows of one contract file, every
\* batch of a file but its last holds batch_size rows, and the batches of a
\* file the orchestrator has read to its end are, joined in call order,
\* the in-range ticks of that file.
C39_Batching ==
    /\ BatchesWellFormed(loads)
    /\ \A i \in finished : BatchesCover(loads, i)
    /\ BatchesWellFormed(chLoads)
    /\ \A i \in chReturned : Decodable(FileOf(i)) => BatchesCover(chLoads, i)


\* the records the while loop of read_records yields from position p on,
\* with the date bounds of the call, up to the end of the file or a raise
RECURSIVE YieldedFrom(_, _)
YieldedFrom(p, out) ==
    LET buffer == FileRead(decFile.bytes, p, RECORD_SIZE)
    IN IF ShortRead(buffer) \/ UnpackRaises(buffer) THEN out
       ELSE LET fields == UnpackRecord(buffer)
                raw_time == fields.raw_time
            IN IF ConvertRaises(raw_time) THEN out
               ELSE YieldedFrom(p + RECORD_SIZE,
                        IF Filtered(ConvertScTimestamp(raw_time),
                                    decArgs.start_date, decArgs.end_date)
                        THEN out
                        ELSE Append(out,
                                    SCIDRecord(raw_time,
                                        [f \in DOMAIN fields \ {"raw_time"} |-> fields[f]],
                                        ExtractContract(Path1))))
\* what read_records(offset = 0) yields with the date bounds of the call
WholeSequence == YieldedFrom(HEADER_SIZE, <<>>)
IsSuffix(out, whole) ==
    \E n \in 0..Len(whole) : out = SubSeq(whole, n + 1, Len(whole))

\* C40: resuming by byte offset: on a file with a valid header, for every
\* offset from 56 to the file size read_records yields a suffix of the
\* records it yields for offset 0 with the same date bounds, and for an
\* offset below 56 it yields all of them.
C40_OffsetYieldsSuffix ==
    ( /\ ScanEnded /\ decFile.exists
      /\ FileRead(decFile.bytes, 0, HEADER_SIZE) = HeaderBytes
      /\ decArgs.offset <= Len(decFile.bytes) )
    => IF decArgs.offset < HEADER_SIZE
       THEN decOut = WholeSequence
       ELSE IsSuffix(decOut, WholeSequence)

=============================================================================
